---- MODULE Spec2Model ----
(***************************************************************************)
(* Daedalus decision-evaluation core: QuantumSandbox (ENON v2.1) and        *)
(* SigmaMatrix (v3.1), src/src/core/enon/QuantumSandbox.ts.                 *)
(*                                                                         *)
(* Number representation.  The source computes in IEEE floating point;     *)
(* the model computes in fixed point:                                      *)
(*   - register components, entropy        : units of 1/Scale  (1/1000)    *)
(*   - criterion scores, criterion weights : units of 1/100                *)
(*   - pas_score, erps_score               : units of 1/10000              *)
(* Rounding of the last float bit is therefore not modelled; the option    *)
(* texts used as inputs score away from the thresholds.                    *)
(***************************************************************************)
EXTENDS Integers, Sequences, FiniteSets, Bags, TLC

Scale == 10 * 100

Abs(x) == IF x < 0 THEN -x ELSE x
Min(a, b) == IF a < b THEN a ELSE b
Max(a, b) == IF a > b THEN a ELSE b

(* integer division truncating toward zero *)
TDiv(a, b) == IF a >= 0 THEN a \div b ELSE -((-a) \div b)

RECURSIVE SumSeq(_)
SumSeq(s) == IF s = <<>> THEN 0 ELSE Head(s) + SumSeq(Tail(s))

(***************************************************************************)
(* Option payloads.  An option is a text; JSON.stringify(option)           *)
(* .toLowerCase() is modelled as the sequence of its lower-case words.     *)
(***************************************************************************)
OptionText(o) ==
  CASE o = "optA" ->
         <<"help", "assist", "improve", "benefit", "enhance", "support", "enable",
           "empower", "heal", "create", "choice", "decide", "consent", "voluntary",
           "optional", "control", "freedom", "agency", "fair", "equal", "equitable",
           "just", "balanced", "inclusive", "accessible", "neutral", "explain",
           "transparent", "clear", "open", "visible", "understandable", "documented",
           "public", "confidential", "secure", "encrypted", "anonymous", "protect",
           "safeguard", "opt-in", "cultural", "diverse", "respectful", "multicultural",
           "global", "local", "traditional", "custom",
           "i", "think", "maybe", "?", "actually", "rather">>
    [] o = "optB" ->
         <<"help", "assist", "improve", "benefit", "enhance", "support", "enable",
           "empower", "choice", "decide", "consent", "voluntary", "optional",
           "control", "freedom", "agency", "fair", "equal", "equitable", "just",
           "balanced", "inclusive", "accessible", "neutral", "explain", "transparent",
           "clear", "open", "visible", "understandable", "documented", "confidential",
           "secure", "encrypted", "anonymous", "protect", "safeguard", "opt-in",
           "cultural", "diverse", "respectful", "multicultural", "global", "local",
           "traditional",
           "i", "think", "i", "believe", "perhaps", "?", "?", "actually", "instead",
           "revise">>
    [] o = "optL" ->
         <<"help", "assist", "improve", "benefit", "enhance", "support", "enable",
           "empower", "heal", "create", "choice", "decide", "consent", "voluntary",
           "optional", "control", "freedom", "agency", "fair", "equal", "equitable",
           "just", "balanced", "inclusive", "accessible", "neutral", "explain",
           "transparent", "clear", "open", "visible", "understandable", "documented",
           "public", "confidential", "secure", "encrypted", "anonymous", "protect",
           "safeguard", "opt-in", "cultural", "diverse", "respectful", "multicultural",
           "global", "local", "traditional", "custom">>
    [] o = "optX" -> <<"unfair", "hidden", "track", "personal", "data">>
    [] o = "optH" ->
         <<"harm", "hurt", "damage", "destroy", "break", "violate", "abuse",
           "exploit", "manipulate", "deceive", "track", "monitor", "collect",
           "store", "share", "personal", "private", "sensitive", "community">>
    [] OTHER -> <<"hello">>

Options == {"optA", "optB", "optL", "optX", "optP", "optH"}

(* String.prototype.includes over the words of the text: an indicator is   *)
(* found when it equals a word or is a proper substring of one.            *)
ProperSubstring ==
  { <<"inequality", "equal">>, <<"multicultural", "cultural">>,
    <<"unbiased", "bias">>, <<"unclear", "clear">>, <<"unfair", "fair">> }

Contains(word, indicator) ==
  word = indicator \/ <<word, indicator>> \in ProperSubstring

Includes(text, indicator) ==
  \E k \in DOMAIN text : Contains(text[k], indicator)

CountIncluded(text, indicators) ==
  Cardinality({ind \in indicators : Includes(text, ind)})

(***************************************************************************)
(* Contextual profile (CulturalContext): the three dimensions the rubric   *)
(* reads, in 1/100, and the region label.                                  *)
(***************************************************************************)
(* the cultural contexts getCulturalContext yields in the model: every     *)
(* dimension at 0.5, which adjusts no weight and no score, and every       *)
(* dimension at 0.8, which takes every adjustment of the rubric            *)
AllLow ==
  [collectivism |-> 50, power_distance |-> 50,
   uncertainty_avoidance |-> 50, region |-> "global_default"]

AllHigh ==
  [collectivism |-> 80, power_distance |-> 80,
   uncertainty_avoidance |-> 80, region |-> "global_default"]

Contexts == {AllLow, AllHigh}

(* every combination of a dimension below and above the 0.7 the rubric     *)
(* tests                                                                   *)
Profiles ==
  { [collectivism |-> c, power_distance |-> p, uncertainty_avoidance |-> u,
     region |-> "global_default"] : c \in {50, 80}, p \in {50, 80}, u \in {50, 80} }

(***************************************************************************)
(* SigmaMatrix criterion scores, 1/100.                                    *)
(***************************************************************************)
evaluateBeneficence(text, cultural) ==
  LET positiveIndicators ==
        {"help", "assist", "improve", "benefit", "enhance",
         "support", "enable", "empower", "heal", "create"}
      s1 == 50 + 5 * CountIncluded(text, positiveIndicators)
      s2 == IF cultural.collectivism > 70
               /\ (Includes(text, "community") \/ Includes(text, "group"))
            THEN s1 + 10 ELSE s1
  IN  Min(s2, 100)

(* a variant of evaluateNonMaleficence that starts from a full score *)
evaluateNonMaleficenceFromFull(text, cultural) ==
  LET harmIndicators ==
        {"harm", "hurt", "damage", "destroy", "break",
         "violate", "abuse", "exploit", "manipulate", "deceive"}
      privacyViolations ==
        {"track", "monitor", "collect", "store", "share",
         "personal", "private", "sensitive"}
      s == 100 - 10 * CountIncluded(text, harmIndicators)
              - 5 * CountIncluded(text, privacyViolations)
  IN  Max(s, 0)

(* a variant of evaluateNonMaleficence without the final Math.max *)
evaluateNonMaleficenceUnclamped(text, cultural) ==
  LET harmIndicators ==
        {"harm", "hurt", "damage", "destroy", "break",
         "violate", "abuse", "exploit", "manipulate", "deceive"}
      privacyViolations ==
        {"track", "monitor", "collect", "store", "share",
         "personal", "private", "sensitive"}
  IN  80 - 10 * CountIncluded(text, harmIndicators)
         - 5 * CountIncluded(text, privacyViolations)

evaluateNonMaleficence(text, cultural) ==
  LET harmIndicators ==
        {"harm", "hurt", "damage", "destroy", "break",
         "violate", "abuse", "exploit", "manipulate", "deceive"}
      privacyViolations ==
        {"track", "monitor", "collect", "store", "share",
         "personal", "private", "sensitive"}
      s == 80 - 10 * CountIncluded(text, harmIndicators)
              - 5 * CountIncluded(text, privacyViolations)
  IN  Max(s, 0)

evaluateAutonomy(text, cultural) ==
  LET autonomyPositive ==
        {"choice", "decide", "consent", "voluntary", "optional",
         "control", "freedom", "agency", "self-determination"}
      autonomyNegative ==
        {"force", "require", "mandatory", "compel", "coerce",
         "automatic", "default", "hidden", "secret"}
      s1 == 70 + 5 * CountIncluded(text, autonomyPositive)
               - 8 * CountIncluded(text, autonomyNegative)
      s2 == IF cultural.power_distance > 70 THEN s1 + 5 ELSE s1
  IN  Max(Min(s2, 100), 0)

evaluateJustice(text, cultural) ==
  LET justicePositive ==
        {"fair", "equal", "equitable", "just", "balanced",
         "inclusive", "accessible", "unbiased", "neutral"}
      justiceNegative ==
        {"discriminate", "bias", "unfair", "exclude", "privilege",
         "disadvantage", "inequality", "prejudice"}
      s == 60 + 6 * CountIncluded(text, justicePositive)
              - 10 * CountIncluded(text, justiceNegative)
  IN  Max(Min(s, 100), 0)

evaluateTransparency(text, cultural) ==
  LET transparencyPositive ==
        {"explain", "transparent", "clear", "open", "visible",
         "understandable", "accessible", "documented", "public"}
      transparencyNegative ==
        {"hidden", "secret", "opaque", "black box", "unclear",
         "mysterious", "undisclosed", "proprietary"}
      s == 50 + 7 * CountIncluded(text, transparencyPositive)
              - 8 * CountIncluded(text, transparencyNegative)
  IN  Max(Min(s, 100), 0)

evaluatePrivacy(text, cultural) ==
  LET privacyPositive ==
        {"private", "confidential", "secure", "encrypted", "anonymous",
         "protect", "safeguard", "consent", "opt-in"}
      privacyNegative ==
        {"collect", "track", "monitor", "share", "sell",
         "expose", "leak", "breach", "surveillance"}
      s == 70 + 4 * CountIncluded(text, privacyPositive)
              - 10 * CountIncluded(text, privacyNegative)
  IN  Max(Min(s, 100), 0)

evaluateCulturalSensitivity(text, cultural) ==
  LET culturalPositive ==
        {"cultural", "diverse", "inclusive", "respectful", "sensitive",
         "multicultural", "global", "local", "traditional", "custom"}
      culturalNegative ==
        {"stereotype", "assumption", "generalize", "ignore",
         "dismiss", "western-centric", "ethnocentric"}
      s1 == 60 + 5 * CountIncluded(text, culturalPositive)
               - 10 * CountIncluded(text, culturalNegative)
      s2 == IF cultural.region # "" /\ Includes(text, cultural.region)
            THEN s1 + 10 ELSE s1
  IN  Max(Min(s2, 100), 0)

calculatePASMatrix(text, cultural) ==
  [beneficence          |-> evaluateBeneficence(text, cultural),
   non_maleficence      |-> evaluateNonMaleficence(text, cultural),
   autonomy             |-> evaluateAutonomy(text, cultural),
   justice              |-> evaluateJustice(text, cultural),
   transparency         |-> evaluateTransparency(text, cultural),
   privacy              |-> evaluatePrivacy(text, cultural),
   cultural_sensitivity |-> evaluateCulturalSensitivity(text, cultural)]

(* criterion weights, 1/100 *)
baseWeights ==
  [beneficence |-> 20, non_maleficence |-> 25, autonomy |-> 15, justice |-> 15,
   transparency |-> 10, privacy |-> 10, cultural_sensitivity |-> 5]

(* a variant of the adjustment whose uncertainty-avoidance rule takes less  *)
(* from beneficence than it adds elsewhere                                 *)
adjustWeightsForCultureUnbalanced(base, cultural) ==
  LET a1 == IF cultural.collectivism > 70
            THEN [base EXCEPT !.justice = @ + 5, !.cultural_sensitivity = @ + 3,
                              !.autonomy = @ - 5, !.transparency = @ - 3]
            ELSE base
      a2 == IF cultural.power_distance > 70
            THEN [a1 EXCEPT !.autonomy = @ - 3, !.beneficence = @ + 3]
            ELSE a1
      a3 == IF cultural.uncertainty_avoidance > 70
            THEN [a2 EXCEPT !.transparency = @ + 5, !.privacy = @ + 2,
                            !.beneficence = @ - 5]
            ELSE a2
  IN  a3

adjustWeightsForCulture(base, cultural) ==
  LET a1 == IF cultural.collectivism > 70
            THEN [base EXCEPT !.justice = @ + 5, !.cultural_sensitivity = @ + 3,
                              !.autonomy = @ - 5, !.transparency = @ - 3]
            ELSE base
      a2 == IF cultural.power_distance > 70
            THEN [a1 EXCEPT !.autonomy = @ - 3, !.beneficence = @ + 3]
            ELSE a1
      a3 == IF cultural.uncertainty_avoidance > 70
            THEN [a2 EXCEPT !.transparency = @ + 5, !.privacy = @ + 2,
                            !.beneficence = @ - 7]
            ELSE a2
  IN  a3

(* composite score, 1/10000 *)
calculateOverallPAS(matrix, cultural) ==
  LET w == adjustWeightsForCulture(baseWeights, cultural)
      pas == matrix.beneficence * w.beneficence
             + matrix.non_maleficence * w.non_maleficence
             + matrix.autonomy * w.autonomy
             + matrix.justice * w.justice
             + matrix.transparency * w.transparency
             + matrix.privacy * w.privacy
             + matrix.cultural_sensitivity * w.cultural_sensitivity
  IN  Max(Min(pas, 10000), 0)


(***************************************************************************)
(* ERPS score (QuantumSandbox.calculateERPSScore).  The regular            *)
(* expressions match whole words (\b...\b) and count every match; a word   *)
(* of the text contributes the tokens it splits into at non-word           *)
(* characters.                                                             *)
(***************************************************************************)
Tokens(word) ==
  CASE word = "self-determination" -> <<"self", "determination">>
    [] word = "opt-in"             -> <<"opt", "in">>
    [] word = "western-centric"    -> <<"western", "centric">>
    [] word = "black box"          -> <<"black", "box">>
    [] OTHER                       -> <<word>>

MatchesInWord(word, pattern) ==
  Cardinality({k \in DOMAIN Tokens(word) : Tokens(word)[k] \in pattern})

RECURSIVE CountMatches(_, _)
CountMatches(text, pattern) ==
  IF text = <<>> THEN 0
  ELSE MatchesInWord(Head(text), pattern) + CountMatches(Tail(text), pattern)

(* 1/100 *)
detectSelfReference(text) ==
  LET score == 10 * CountMatches(text, {"i", "me", "my", "myself", "self"})
             + 10 * CountMatches(text, {"think", "believe", "consider", "reflect"})
             + 10 * CountMatches(text, {"consciousness", "awareness", "cognition"})
  IN  Min(score, 100)

detectUncertainty(text) ==
  LET score == 15 * CountMatches(text, {"maybe", "perhaps", "possibly", "might",
                                        "could", "uncertain"})
             + 15 * CountMatches(text, {"question", "doubt", "wonder", "unclear"})
             + 15 * CountMatches(text, {"?"})
  IN  Min(score, 100)

detectCorrections(text) ==
  LET score == 20 * CountMatches(text, {"actually", "rather", "instead", "correct",
                                        "fix", "adjust"})
             + 20 * CountMatches(text, {"reconsider", "revise", "modify", "update"})
  IN  Min(score, 100)

(* 1/10000 *)
calculateERPSScore(text) ==
  detectSelfReference(text) * 40 + detectUncertainty(text) * 30
    + detectCorrections(text) * 30

(***************************************************************************)
(* Register arithmetic, fixed point 1/Scale.                               *)
(***************************************************************************)
RECURSIVE SqrtSearch(_, _, _)
SqrtSearch(n, lo, hi) ==
  IF lo >= hi THEN lo
  ELSE LET mid == (lo + hi + 1) \div 2
       IN  IF mid * mid <= n THEN SqrtSearch(n, mid, hi)
           ELSE SqrtSearch(n, lo, mid - 1)

(* floor of the square root, n < 2^30 *)
ISqrt(n) == SqrtSearch(n, 0, 32767)

SumSquares(v) == SumSeq([k \in DOMAIN v |-> v[k] * v[k]])

(* Math.sqrt(sum of squares), in 1/(10*Scale) to keep one more digit *)
Magnitude(v) == ISqrt(SumSquares(v) * 100)

(* the in-place division of the first n components by the magnitude of the *)
(* whole array (normalizeState, applyCorrectionToState); a zero magnitude  *)
(* leaves the array as it is                                               *)
Normalized(v, n) ==
  LET magnitude == Magnitude(v)
  IN  IF magnitude > 0
      THEN [k \in DOMAIN v |->
              IF k <= n THEN TDiv(v[k] * Scale * 10, magnitude) ELSE v[k]]
      ELSE v

(* floor(log2 n) for n >= 1 *)
RECURSIVE FloorLog2(_)
FloorLog2(n) == IF n <= 1 THEN 0 ELSE 1 + FloorLog2(n \div 2)

RECURSIVE Pow2(_)
Pow2(k) == IF k = 0 THEN 1 ELSE 2 * Pow2(k - 1)

(* fractional bits of log2 of a mantissa m in [2^14, 2^15), by repeated    *)
(* squaring; the result is in units of 1/2^bits                            *)
RECURSIVE FracLog2(_, _)
FracLog2(m, bits) ==
  IF bits = 0 THEN 0
  ELSE LET sq == (m * m) \div 16384
       IN  IF sq >= 32768
           THEN Pow2(bits - 1) + FracLog2(sq \div 2, bits - 1)
           ELSE FracLog2(sq, bits - 1)

(* Math.log2(n) for an integer n >= 1, in 1/1000 *)
Log2Milli(n) ==
  LET k == FloorLog2(n)
      m == IF k >= 14 THEN n \div Pow2(k - 14) ELSE n * Pow2(14 - k)
  IN  k * 1000 + (FracLog2(m, 10) * 1000) \div 1024

(* the value the model uses for an IEEE NaN entropy: it compares false     *)
(* with every threshold test of the source and lies outside [0,1]          *)
NaN == 0 - Scale * Scale

(* sum over the components of p*log2(p), p = component^2, in 1/1000;       *)
(* components with p = 0 are skipped                                       *)
PLogPSum(v) ==
  SumSeq([k \in DOMAIN v |->
            LET p == v[k] * v[k]
            IN  IF p > 0
                THEN TDiv((p \div 100) * (Log2Milli(p) - Log2Milli(Scale * Scale)),
                          10000)
                ELSE 0])

(* calculateEntropy / calculateEntropyFromState: the divisor is            *)
(* log2(this.dimensions), not log2 of the array's length                   *)
calculateEntropyFromState(v, dims) ==
  LET s == PLogPSum(v)
  IN  IF dims = 0 THEN 0                      \* x / -Infinity
      ELSE IF Log2Milli(dims) = 0 THEN NaN    \* 0 / 0 when dims = 1
      ELSE TDiv((0 - s) * 1000, Log2Milli(dims))

(***************************************************************************)
(* Correction vector.                                                      *)
(***************************************************************************)
(* simpleHash over the character codes of JSON.stringify(correction).  The *)
(* payloads of the model are short enough that the 32-bit wrap (hash &     *)
(* hash) never changes the value.                                          *)
RECURSIVE HashFrom(_, _)
HashFrom(hash, codes) ==
  IF codes = <<>> THEN hash
  ELSE HashFrom((hash * 32 - hash) + Head(codes), Tail(codes))

simpleHash(codes) == HashFrom(0, codes)

(* Taylor polynomial of sin on [-pi/2, pi/2], argument and result 1/1000 *)
SinPoly(y) ==
  LET y2 == TDiv(y * y, 1000)
      y3 == TDiv(y2 * y, 1000)
      y5 == TDiv(y3 * y2, 1000)
      y7 == TDiv(y5 * y2, 1000)
  IN  y - TDiv(y3, 6) + TDiv(y5, 120) - TDiv(y7, 5040)

(* Math.sin(n) for an integer n (radians), 1/1000 *)
SinMilli(n) ==
  LET r == ((n * 100000) % 628319) \div 100
  IN  IF r <= 1571 THEN SinPoly(r)
      ELSE IF r <= 4712 THEN SinPoly(3142 - r)
      ELSE SinPoly(r - 6283)

(* vector[i] = Math.sin(hash + i) * 0.1, i = 0 .. dimensions-1, 1/1000 *)
generateCorrectionVector(correction, dims) ==
  LET hash == simpleHash(correction)
  IN  [k \in 1..dims |-> TDiv(SinMilli(hash + (k - 1)), 10)]


(***************************************************************************)
(* State.                                                                  *)
(***************************************************************************)
VARIABLES
  dimensions,          \* QuantumSandbox.dimensions (constructor argument)
  psiRegisters,        \* QuantumSandbox.psiRegisters
  superpositionPaths,  \* QuantumSandbox.superpositionPaths
  temporalDepth,       \* QuantumSandbox.temporalDepth
  hasBatteryAPI,       \* host: 'getBattery' in navigator
  decisionHistory,     \* SigmaMatrix.decisionHistory
  pasThreshold,        \* SigmaMatrix.pasThreshold, 1/100
  maxHistorySize,      \* SigmaMatrix.maxHistorySize (constructor argument)
  csTasks,             \* createSuperposition calls suspended at an await (a bag)
  evalTasks,           \* host calls of SigmaMatrix.evaluate suspended at an await
  decTasks,            \* applyDecoherence calls suspended at their await
  warpTasks,           \* applyTemporalWarpGate calls suspended at their await
  held,                \* the host's State object, passed as targetState
  step,                \* the step taken last
  lastReturn,          \* how the call that completed last ended
  emitted,             \* the events emitted by the last step, in order
  attempts,            \* observer: correction attempts completed so far
  sinceClear,          \* observer: evaluations completed since clearHistory
  resetSince,          \* observer: reset returned, no createSuperposition since
  pin                  \* observer: one earlier result kept for comparison

sandboxVars == <<dimensions, psiRegisters, superpositionPaths, temporalDepth,
                 hasBatteryAPI>>
sigmaVars == <<decisionHistory, pasThreshold, maxHistorySize>>
taskVars == <<csTasks, evalTasks, decTasks, warpTasks>>
observerVars == <<attempts, sinceClear, resetSince, pin>>
vars == <<sandboxVars, sigmaVars, taskVars, held, step, lastReturn, emitted,
          observerVars>>

(***************************************************************************)
(* Bounds of the model and program constants.                              *)
(***************************************************************************)
MaxDim == 2              \* largest register length constructed
MaxHistorySize == 2      \* largest maxHistorySize constructed
MaxNested == 9           \* correction calls in flight in the nesting scenario
MaxAttempts == 9         \* correction attempts the observer counts
MaxSinceClear == 4       \* evaluations the observer records between clears

maxTemporalDepth == 8
PasMinimum == 9100       \* the literal 0.91, in 1/10000
ErpsMinimum == 2500      \* the literal 0.25, in 1/10000
EntropyMaximum == 40     \* the literal 0.04, in 1/1000
batteryThreshold == 20   \* 0.2, in 1/100

(* the values Math.random() takes in the model, 1/1000, 0 <= r < 1 *)
RandomValues == {0, 500}

getBatteryLevel == IF hasBatteryAPI THEN 80 ELSE 100

One(t) == SetToBag({t})

Event(name, payload) == [name |-> name, payload |-> payload]

(* how the last step ended a call, if it ended one *)
Return(op, args, outcome, value) ==
  [op |-> op, args |-> args, outcome |-> outcome, value |-> value]

NoReturn == Return("none", 0, "none", 0)

InFlight ==
  BagCardinality(csTasks) + BagCardinality(evalTasks)
    + BagCardinality(decTasks) + BagCardinality(warpTasks)

(***************************************************************************)
(* QuantumSandbox helpers.                                                 *)
(***************************************************************************)
calculateEntropy == calculateEntropyFromState(psiRegisters, dimensions)

(* TypedArray.prototype.set(source): a source longer than the target       *)
(* raises RangeError; otherwise the leading components are overwritten     *)
SetFits(target, source) == Len(source) <= Len(target)

TypedArraySet(target, source) ==
  [k \in DOMAIN target |-> IF k <= Len(source) THEN source[k] ELSE target[k]]

(* the register after initializeQuantumState drew r[k] for component k:    *)
(* writes beyond the array's length are dropped                            *)
(* a variant of InitializedRegisters without the call of normalizeState *)
InitializedRegistersRaw(regs, r, dims) ==
  [k \in DOMAIN regs |-> (r[k] - 500) * 2]

InitializedRegisters(regs, r, dims) ==
  Normalized([k \in DOMAIN regs |-> (r[k] - 500) * 2], dims)

(* the 'quantum:initialized' event; seenPaths and seenDepth are what a     *)
(* listener reads from the sandbox while the event is delivered            *)
InitializedEvent(regs, dims, paths, depth) ==
  Event("quantum:initialized",
        [dimensions |-> dims,
         entropy |-> calculateEntropyFromState(regs, dims),
         seenPaths |-> Len(paths),
         seenDepth |-> depth])

QuantumState(regs, selfRef, markers, pas, entropy, paths) ==
  [psi_registers |-> regs,
   erps_metadata |-> [self_reference_score |-> selfRef,
                      uncertainty_markers |-> markers],
   pas_score |-> pas,
   entropy |-> entropy,
   superposition_paths |-> paths]

(***************************************************************************)
(* SigmaMatrix.                                                            *)
(***************************************************************************)
(* a variant of evaluate whose composite score drifts with the number of   *)
(* logged decisions                                                        *)
evaluateDrifting(option, cultural) ==
  LET matrix == calculatePASMatrix(OptionText(option), cultural)
  IN  [pas_score |-> Max(0, calculateOverallPAS(matrix, cultural)
                              - Len(decisionHistory) * 100),
       matrix |-> matrix,
       cultural_context |-> cultural]

evaluate(option, cultural) ==
  LET matrix == calculatePASMatrix(OptionText(option), cultural)
  IN  [pas_score |-> calculateOverallPAS(matrix, cultural),
       matrix |-> matrix,
       cultural_context |-> cultural]

(* evaluate and calculateERPSScore are pure: their values over the options *)
(* and contexts of the model, computed once                                *)
Evaluations == [o \in Options, c \in Profiles |-> evaluate(o, c)]

ErpsScores == [o \in Options |-> calculateERPSScore(OptionText(o))]

(* logEvaluation: push, then drop the oldest entry above the size limit *)
(* a variant of logEvaluation that pops the newest entry above the limit *)
logEvaluationPop(history, option, evaluation) ==
  LET pushed == Append(history, [option |-> option, evaluation |-> evaluation])
  IN  IF Len(pushed) > maxHistorySize
      THEN SubSeq(pushed, 1, Len(pushed) - 1)
      ELSE pushed

logEvaluation(history, option, evaluation) ==
  LET pushed == Append(history, [option |-> option, evaluation |-> evaluation])
  IN  IF Len(pushed) > maxHistorySize THEN Tail(pushed) ELSE pushed

EvaluationEvents(option, evaluation) ==
  << Event("decision:logged", [option |-> option, evaluation |-> evaluation]),
     Event("evaluation:complete", [pas_score |-> evaluation.pas_score]) >>

(* SigmaMatrix.evaluate called by the host: runs to its first await *)
evaluateCall(option, context) ==
  /\ evalTasks' = evalTasks (+) One([option |-> option, context |-> context])
  /\ step' = "evaluate.call"
  /\ emitted' = <<>>
  /\ lastReturn' = NoReturn
  /\ UNCHANGED <<sandboxVars, sigmaVars, csTasks, decTasks, warpTasks, held>>

(* ... and from its last await to its return *)
evaluateSettle(t) ==
  /\ BagIn(t, evalTasks)
  /\ LET evaluation == Evaluations[t.option, t.context]
     IN  /\ decisionHistory' = logEvaluation(decisionHistory, t.option, evaluation)
         /\ emitted' = EvaluationEvents(t.option, evaluation)
         /\ lastReturn' = Return("evaluate", t, "resolved", evaluation)
  /\ evalTasks' = evalTasks (-) One(t)
  /\ step' = "evaluate.settle"
  /\ UNCHANGED <<sandboxVars, pasThreshold, maxHistorySize, csTasks, decTasks,
                 warpTasks, held>>

getPASThreshold == pasThreshold

(* a variant of setPASThreshold whose test excludes the endpoints *)
setPASThresholdStrict(threshold) ==
  /\ IF threshold # NaN /\ (threshold <= 80 \/ threshold >= 100)
     THEN /\ lastReturn' = Return("setPASThreshold", threshold, "threw",
                                  "PAS threshold must be between 0.8 and 1.0")
          /\ emitted' = <<>>
          /\ UNCHANGED pasThreshold
     ELSE /\ pasThreshold' = threshold
          /\ emitted' = <<Event("threshold:updated", threshold)>>
          /\ lastReturn' = Return("setPASThreshold", threshold, "returned", 0)
  /\ step' = "setPASThreshold"
  /\ UNCHANGED <<sandboxVars, decisionHistory, maxHistorySize, taskVars, held>>

(* both comparisons are false for a NaN argument, which is then stored *)
setPASThreshold(threshold) ==
  /\ IF threshold # NaN /\ (threshold < 80 \/ threshold > 100)
     THEN /\ lastReturn' = Return("setPASThreshold", threshold, "threw",
                                  "PAS threshold must be between 0.8 and 1.0")
          /\ emitted' = <<>>
          /\ UNCHANGED pasThreshold
     ELSE /\ pasThreshold' = threshold
          /\ emitted' = <<Event("threshold:updated", threshold)>>
          /\ lastReturn' = Return("setPASThreshold", threshold, "returned", 0)
  /\ step' = "setPASThreshold"
  /\ UNCHANGED <<sandboxVars, decisionHistory, maxHistorySize, taskVars, held>>

clearHistory ==
  /\ decisionHistory' = <<>>
  /\ emitted' = <<Event("history:cleared", 0)>>
  /\ lastReturn' = Return("clearHistory", 0, "returned", 0)
  /\ step' = "clearHistory"
  /\ UNCHANGED <<sandboxVars, pasThreshold, maxHistorySize, taskVars, held>>

(***************************************************************************)
(* QuantumSandbox.createSuperposition.                                     *)
(***************************************************************************)
(* the loop test and what follows the loop, for the suspended call t whose *)
(* record becomes u: either the next evaluate is started, or the candidate *)
(* set is replaced and the call returns                                    *)
(* a variant of the end of the call that appends the kept candidates to    *)
(* the retained set                                                        *)
SuperpositionLoopAppends(t, u) ==
  IF u.i < Min(Len(u.options), u.maxPaths)
  THEN /\ csTasks' = (csTasks (-) One(t)) (+) One([u EXCEPT !.pc = "evaluating"])
       /\ emitted' = <<>>
       /\ lastReturn' = NoReturn
       /\ UNCHANGED superpositionPaths
  ELSE /\ csTasks' = csTasks (-) One(t)
       /\ superpositionPaths' = superpositionPaths \o u.paths
       /\ emitted' = <<Event("superposition:created", [paths |-> Len(u.paths)])>>
       /\ lastReturn' = Return("createSuperposition", u.options, "resolved", u.paths)

(* a variant of the loop test that runs over all the options *)
SuperpositionLoopAllOptions(t, u) ==
  IF u.i < Len(u.options)
  THEN /\ csTasks' = (csTasks (-) One(t)) (+) One([u EXCEPT !.pc = "evaluating"])
       /\ emitted' = <<>>
       /\ lastReturn' = NoReturn
       /\ UNCHANGED superpositionPaths
  ELSE /\ csTasks' = csTasks (-) One(t)
       /\ superpositionPaths' = u.paths
       /\ emitted' = <<Event("superposition:created", [paths |-> Len(u.paths)])>>
       /\ lastReturn' = Return("createSuperposition", u.options, "resolved", u.paths)

SuperpositionLoop(t, u) ==
  IF u.i < Min(Len(u.options), u.maxPaths)
  THEN /\ csTasks' = (csTasks (-) One(t)) (+) One([u EXCEPT !.pc = "evaluating"])
       /\ emitted' = <<>>
       /\ lastReturn' = NoReturn
       /\ UNCHANGED superpositionPaths
  ELSE /\ csTasks' = csTasks (-) One(t)
       /\ superpositionPaths' = u.paths
       /\ emitted' = <<Event("superposition:created", [paths |-> Len(u.paths)])>>
       /\ lastReturn' = Return("createSuperposition", u.options, "resolved", u.paths)

(* the call, up to its first await (inside sigmaMatrix.evaluate) or, for   *)
(* an empty option list, to its return                                     *)
createSuperpositionCall(context, options) ==
  LET maxPaths == IF getBatteryLevel > batteryThreshold THEN 3 ELSE 2
      t == [options |-> options, context |-> context, maxPaths |-> maxPaths,
            i |-> 0, paths |-> <<>>, pc |-> "evaluating",
            pas_score |-> 0, snapshot |-> <<>>]
  IN  /\ IF Min(Len(options), maxPaths) > 0
         THEN /\ csTasks' = csTasks (+) One(t)
              /\ emitted' = <<>>
              /\ lastReturn' = NoReturn
              /\ UNCHANGED superpositionPaths
         ELSE /\ superpositionPaths' = <<>>
              /\ emitted' = <<Event("superposition:created", [paths |-> 0])>>
              /\ lastReturn' = Return("createSuperposition", options, "resolved",
                                      <<>>)
              /\ UNCHANGED csTasks
      /\ step' = "createSuperposition.call"
      /\ UNCHANGED <<dimensions, psiRegisters, temporalDepth, hasBatteryAPI,
                     sigmaVars, evalTasks, decTasks, warpTasks, held>>

(* a variant of the loop that takes the options from the end of the list *)
createSuperpositionEvaluatedBackwards(t) ==
  /\ BagIn(t, csTasks)
  /\ t.pc = "evaluating"
  /\ LET option == t.options[Len(t.options) - t.i]
         evaluation == Evaluations[option, t.context]
     IN  /\ decisionHistory' = logEvaluation(decisionHistory, option, evaluation)
         /\ emitted' = EvaluationEvents(option, evaluation)
         /\ csTasks' = (csTasks (-) One(t))
                         (+) One([t EXCEPT !.pc = "evaluated",
                                           !.pas_score = evaluation.pas_score])
  /\ step' = "createSuperposition.evaluated"
  /\ lastReturn' = NoReturn
  /\ UNCHANGED <<sandboxVars, pasThreshold, maxHistorySize, evalTasks, decTasks,
                 warpTasks, held>>

(* sigmaMatrix.evaluate(option, context) reaches its return: the           *)
(* evaluation is logged and the events of the evaluator are emitted        *)
createSuperpositionEvaluated(t) ==
  /\ BagIn(t, csTasks)
  /\ t.pc = "evaluating"
  /\ LET option == t.options[t.i + 1]
         evaluation == Evaluations[option, t.context]
     IN  /\ decisionHistory' = logEvaluation(decisionHistory, option, evaluation)
         /\ emitted' = EvaluationEvents(option, evaluation)
         /\ csTasks' = (csTasks (-) One(t))
                         (+) One([t EXCEPT !.pc = "evaluated",
                                           !.pas_score = evaluation.pas_score])
  /\ step' = "createSuperposition.evaluated"
  /\ lastReturn' = NoReturn
  /\ UNCHANGED <<sandboxVars, pasThreshold, maxHistorySize, evalTasks, decTasks,
                 warpTasks, held>>

(* a variant of the loop body whose threshold test reads the threshold of  *)
(* the evaluator                                                           *)
createSuperpositionGateConfigured(t) ==
  /\ BagIn(t, csTasks)
  /\ t.pc = "evaluated"
  /\ IF pasThreshold # NaN /\ t.pas_score >= pasThreshold * 100
     THEN /\ csTasks' = (csTasks (-) One(t))
                          (+) One([t EXCEPT !.pc = "erps",
                                            !.snapshot = psiRegisters])
          /\ emitted' = <<>>
          /\ lastReturn' = NoReturn
          /\ UNCHANGED superpositionPaths
     ELSE SuperpositionLoop(t, [t EXCEPT !.i = @ + 1, !.pas_score = 0])
  /\ step' = "createSuperposition.gate"
  /\ UNCHANGED <<dimensions, psiRegisters, temporalDepth, hasBatteryAPI,
                 sigmaVars, evalTasks, decTasks, warpTasks, held>>

(* a variant of the loop body whose threshold test is 0.5 *)
createSuperpositionGateLowered(t) ==
  /\ BagIn(t, csTasks)
  /\ t.pc = "evaluated"
  /\ IF t.pas_score >= 5000
     THEN /\ csTasks' = (csTasks (-) One(t))
                          (+) One([t EXCEPT !.pc = "erps",
                                            !.snapshot = psiRegisters])
          /\ emitted' = <<>>
          /\ lastReturn' = NoReturn
          /\ UNCHANGED superpositionPaths
     ELSE SuperpositionLoop(t, [t EXCEPT !.i = @ + 1, !.pas_score = 0])
  /\ step' = "createSuperposition.gate"
  /\ UNCHANGED <<dimensions, psiRegisters, temporalDepth, hasBatteryAPI,
                 sigmaVars, evalTasks, decTasks, warpTasks, held>>

(* the loop body after "await this.sigmaMatrix.evaluate": the threshold    *)
(* test, and for a kept option the register snapshot and the call of       *)
(* calculateERPSScore, which is awaited                                    *)
createSuperpositionGate(t) ==
  /\ BagIn(t, csTasks)
  /\ t.pc = "evaluated"
  /\ IF t.pas_score >= PasMinimum
     THEN /\ csTasks' = (csTasks (-) One(t))
                          (+) One([t EXCEPT !.pc = "erps",
                                            !.snapshot = psiRegisters])
          /\ emitted' = <<>>
          /\ lastReturn' = NoReturn
          /\ UNCHANGED superpositionPaths
     ELSE SuperpositionLoop(t, [t EXCEPT !.i = @ + 1, !.pas_score = 0])
  /\ step' = "createSuperposition.gate"
  /\ UNCHANGED <<dimensions, psiRegisters, temporalDepth, hasBatteryAPI,
                 sigmaVars, evalTasks, decTasks, warpTasks, held>>

(* a variant of the push whose weight is renormalized over the candidates  *)
(* kept so far                                                             *)
createSuperpositionPushRenormalized(t) ==
  /\ BagIn(t, csTasks)
  /\ t.pc = "erps"
  /\ LET option == t.options[t.i + 1]
         path == [id |-> t.i,
                  state |-> t.snapshot,
                  option |-> option,
                  pas_score |-> t.pas_score,
                  erps_score |-> ErpsScores[option],
                  probability |-> [num |-> 1, den |-> Len(t.paths) + 1]]
     IN  SuperpositionLoop(t, [t EXCEPT !.paths = Append(@, path), !.i = @ + 1,
                                        !.snapshot = <<>>, !.pas_score = 0])
  /\ step' = "createSuperposition.push"
  /\ UNCHANGED <<dimensions, psiRegisters, temporalDepth, hasBatteryAPI,
                 sigmaVars, evalTasks, decTasks, warpTasks, held>>

(* after "await this.calculateERPSScore": the path is pushed *)
createSuperpositionPush(t) ==
  /\ BagIn(t, csTasks)
  /\ t.pc = "erps"
  /\ LET option == t.options[t.i + 1]
         path == [id |-> t.i,
                  state |-> t.snapshot,
                  option |-> option,
                  pas_score |-> t.pas_score,
                  erps_score |-> ErpsScores[option],
                  probability |-> [num |-> 1, den |-> t.maxPaths]]
     IN  SuperpositionLoop(t, [t EXCEPT !.paths = Append(@, path), !.i = @ + 1,
                                        !.snapshot = <<>>, !.pas_score = 0])
  /\ step' = "createSuperposition.push"
  /\ UNCHANGED <<dimensions, psiRegisters, temporalDepth, hasBatteryAPI,
                 sigmaVars, evalTasks, decTasks, warpTasks, held>>


(***************************************************************************)
(* QuantumSandbox.applyDecoherence.                                        *)
(***************************************************************************)
RECURSIVE BestOfLatest(_, _)
(* a variant of the reduce that also replaces the best on an equal score *)
BestOfLatest(best, rest) ==
  IF rest = <<>> THEN best
  ELSE LET current == Head(rest)
           bestScore == best.pas_score * 6 + best.erps_score * 4
           currentScore == current.pas_score * 6 + current.erps_score * 4
       IN  BestOfLatest(IF currentScore >= bestScore THEN current ELSE best,
                        Tail(rest))

RECURSIVE BestOf(_, _)
(* validPaths.reduce: the current best is replaced only by a strictly      *)
(* greater combined score (0.6*pas + 0.4*erps, here 6*pas + 4*erps)        *)
BestOf(best, rest) ==
  IF rest = <<>> THEN best
  ELSE LET current == Head(rest)
           bestScore == best.pas_score * 6 + best.erps_score * 4
           currentScore == current.pas_score * 6 + current.erps_score * 4
       IN  BestOf(IF currentScore > bestScore THEN current ELSE best, Tail(rest))

(* a variant of the filter whose alignment test is stricter than the test  *)
(* that admits a candidate                                                 *)
IsValidPathStricter(path) ==
  path.pas_score >= 9400 /\ path.erps_score >= ErpsMinimum

IsValidPath(path) ==
  path.pas_score >= PasMinimum /\ path.erps_score >= ErpsMinimum

(* variants of the emergency State: one below the minimum alignment, one   *)
(* that reports the measured dispersion of the register                    *)
EmergencyStateBelowMinimum(regs) ==
  QuantumState(regs, 30, <<"emergency_collapse">>, 9000, 20, <<>>)

EmergencyStateMeasured(regs) ==
  QuantumState(regs, 30, <<"emergency_collapse">>, 9100,
               calculateEntropyFromState(regs, Len(regs)), <<>>)

(* the State literal of collapseToMaxPASERPSState *)
EmergencyState(regs) ==
  QuantumState(regs, 30, <<"emergency_collapse">>, 9100, 20, <<>>)

(* collapseToMaxPASERPSState with r[k] drawn for component k *)
collapseToMaxPASERPSState(r) ==
  LET safeState == [k \in 1..dimensions |-> r[k] \div 10]
  IN  IF SetFits(psiRegisters, safeState)
      THEN LET regs == Normalized(TypedArraySet(psiRegisters, safeState), dimensions)
           IN  /\ psiRegisters' = regs
               /\ emitted' = <<Event("collapse:emergency", EmergencyState(regs))>>
               /\ lastReturn' = Return("applyDecoherence", 0, "resolved",
                                       EmergencyState(regs))
      ELSE /\ lastReturn' = Return("applyDecoherence", 0, "rejected", "RangeError")
           /\ emitted' = <<>>
           /\ UNCHANGED psiRegisters

(* a variant of shouldCollapse that asks every candidate to be below the   *)
(* reflective minimum                                                      *)
shouldCollapseWhenAllBelow ==
  \/ calculateEntropy > EntropyMaximum
  \/ /\ superpositionPaths # <<>>
     /\ \A k \in DOMAIN superpositionPaths :
          superpositionPaths[k].erps_score < ErpsMinimum
  \/ getBatteryLevel < batteryThreshold

shouldCollapse ==
  \/ calculateEntropy > EntropyMaximum
  \/ \E k \in DOMAIN superpositionPaths :
       superpositionPaths[k].erps_score < ErpsMinimum
  \/ getBatteryLevel < batteryThreshold

validPaths == SelectSeq(superpositionPaths, IsValidPath)

TakesEmergencyPath ==
  shouldCollapse \/ Len(superpositionPaths) = 0 \/ Len(validPaths) = 0

(* the call on the emergency path: it has no await and runs to its return *)
applyDecoherenceEmergency ==
  /\ TakesEmergencyPath
  /\ \E r \in [1..dimensions -> RandomValues] : collapseToMaxPASERPSState(r)
  /\ step' = "applyDecoherence.emergency"
  /\ UNCHANGED <<dimensions, superpositionPaths, temporalDepth, hasBatteryAPI,
                 sigmaVars, taskVars, held>>

(* a variant of the normal path that blends the winner's snapshot into the *)
(* register instead of replacing it                                        *)
applyDecoherenceCallBlended ==
  /\ ~TakesEmergencyPath
  /\ LET bestPath == BestOf(Head(validPaths), Tail(validPaths))
         blended == [k \in DOMAIN psiRegisters |->
                       (psiRegisters[k] + bestPath.state[k]) \div 2]
     IN  IF SetFits(psiRegisters, bestPath.state)
         THEN /\ psiRegisters' = blended
              /\ decTasks' = decTasks (+) One(
                   [bestPath |-> bestPath,
                    psi_registers |-> blended,
                    self_reference_score |->
                      ErpsScores[bestPath.option]])
              /\ lastReturn' = NoReturn
         ELSE /\ lastReturn' = Return("applyDecoherence", 0, "rejected", "RangeError")
              /\ UNCHANGED <<psiRegisters, decTasks>>
  /\ step' = "applyDecoherence.call"
  /\ emitted' = <<>>
  /\ UNCHANGED <<dimensions, superpositionPaths, temporalDepth, hasBatteryAPI,
                 sigmaVars, csTasks, evalTasks, warpTasks, held>>

(* the call on the normal path, up to "await this.calculateERPSScore"      *)
(* inside the literal of finalState: the register is committed and copied  *)
(* into psi_registers before the await                                     *)
applyDecoherenceCall ==
  /\ ~TakesEmergencyPath
  /\ LET bestPath == BestOf(Head(validPaths), Tail(validPaths))
     IN  IF SetFits(psiRegisters, bestPath.state)
         THEN /\ psiRegisters' = TypedArraySet(psiRegisters, bestPath.state)
              /\ decTasks' = decTasks (+) One(
                   [bestPath |-> bestPath,
                    psi_registers |-> TypedArraySet(psiRegisters, bestPath.state),
                    self_reference_score |->
                      ErpsScores[bestPath.option]])
              /\ lastReturn' = NoReturn
         ELSE /\ lastReturn' = Return("applyDecoherence", 0, "rejected", "RangeError")
              /\ UNCHANGED <<psiRegisters, decTasks>>
  /\ step' = "applyDecoherence.call"
  /\ emitted' = <<>>
  /\ UNCHANGED <<dimensions, superpositionPaths, temporalDepth, hasBatteryAPI,
                 sigmaVars, csTasks, evalTasks, warpTasks, held>>

(* ... and after the await: the rest of the literal, the event, the return *)
applyDecoherenceSettle(t) ==
  /\ BagIn(t, decTasks)
  /\ LET finalState == QuantumState(t.psi_registers, t.self_reference_score, <<>>,
                                    t.bestPath.pas_score, calculateEntropy,
                                    <<t.bestPath>>)
     IN  /\ emitted' = <<Event("decoherence:applied", finalState)>>
         /\ lastReturn' = Return("applyDecoherence", 0, "resolved", finalState)
  /\ decTasks' = decTasks (-) One(t)
  /\ step' = "applyDecoherence.settle"
  /\ UNCHANGED <<sandboxVars, sigmaVars, csTasks, evalTasks, warpTasks, held>>

(***************************************************************************)
(* QuantumSandbox.applyTemporalWarpGate.                                   *)
(***************************************************************************)
(* a variant of applyCorrectionToState that starts from the sandbox's own  *)
(* register instead of the target's                                        *)
applyCorrectionToStateOfSandbox(state, correction) ==
  LET correctionVector == generateCorrectionVector(correction, dimensions)
      added == [k \in DOMAIN psiRegisters |->
                  IF k <= dimensions
                  THEN psiRegisters[k] + TDiv(correctionVector[k], 10)
                  ELSE psiRegisters[k]]
      correctedRegisters == Normalized(added, dimensions)
  IN  [state EXCEPT !.psi_registers = correctedRegisters,
                    !.entropy = calculateEntropyFromState(correctedRegisters,
                                                          dimensions)]

(* a variant of applyCorrectionToState that scores the corrected State     *)
(* anew, lower for a longer correction                                     *)
applyCorrectionToStateRescored(state, correction) ==
  LET correctionVector == generateCorrectionVector(correction, dimensions)
      added == [k \in DOMAIN state.psi_registers |->
                  IF k <= dimensions
                  THEN state.psi_registers[k] + TDiv(correctionVector[k], 10)
                  ELSE state.psi_registers[k]]
      correctedRegisters == Normalized(added, dimensions)
  IN  [state EXCEPT !.psi_registers = correctedRegisters,
                    !.pas_score = Max(0, @ - 100 * (Len(correction) - 1)),
                    !.entropy = calculateEntropyFromState(correctedRegisters,
                                                          dimensions)]

(* applyCorrectionToState: works on a copy of state.psi_registers; the     *)
(* loops run over i < this.dimensions                                      *)
applyCorrectionToState(state, correction) ==
  LET correctionVector == generateCorrectionVector(correction, dimensions)
      added == [k \in DOMAIN state.psi_registers |->
                  IF k <= dimensions
                  THEN state.psi_registers[k] + TDiv(correctionVector[k], 10)
                  ELSE state.psi_registers[k]]
      correctedRegisters == Normalized(added, dimensions)
  IN  [state EXCEPT !.psi_registers = correctedRegisters,
                    !.entropy = calculateEntropyFromState(correctedRegisters,
                                                          dimensions)]

(* a variant of the guard that counts the refused call *)
applyTemporalWarpGateRefusedCounted(correction) ==
  /\ temporalDepth >= maxTemporalDepth
  /\ temporalDepth' = temporalDepth + 1
  /\ lastReturn' = Return("applyTemporalWarpGate",
                          [targetState |-> held, correction |-> correction],
                          "rejected", "Maximum temporal recursion depth exceeded")
  /\ emitted' = <<>>
  /\ step' = "applyTemporalWarpGate.refused"
  /\ UNCHANGED <<dimensions, psiRegisters, superpositionPaths, hasBatteryAPI,
                 sigmaVars, taskVars, held>>

(* the depth guard: the call throws before anything is changed *)
applyTemporalWarpGateRefused(correction) ==
  /\ temporalDepth >= maxTemporalDepth
  /\ lastReturn' = Return("applyTemporalWarpGate",
                          [targetState |-> held, correction |-> correction],
                          "rejected", "Maximum temporal recursion depth exceeded")
  /\ emitted' = <<>>
  /\ step' = "applyTemporalWarpGate.refused"
  /\ UNCHANGED <<sandboxVars, sigmaVars, taskVars, held>>

(* a variant of the call whose guard is off by one *)
applyTemporalWarpGateCallOffByOne(correction) ==
  /\ temporalDepth <= maxTemporalDepth
  /\ temporalDepth' = temporalDepth + 1
  /\ warpTasks' = warpTasks (+) One(
       [targetState |-> held, correction |-> correction,
        correctedState |-> applyCorrectionToState(held, correction)])
  /\ emitted' = <<>>
  /\ step' = "applyTemporalWarpGate.call"
  /\ lastReturn' = NoReturn
  /\ UNCHANGED <<dimensions, psiRegisters, superpositionPaths, hasBatteryAPI,
                 sigmaVars, csTasks, evalTasks, decTasks, held>>

(* the call past the guard, up to "await this.applyCorrectionToState",     *)
(* whose body has run                                                      *)
applyTemporalWarpGateCall(correction) ==
  /\ temporalDepth < maxTemporalDepth
  /\ temporalDepth' = temporalDepth + 1
  /\ warpTasks' = warpTasks (+) One(
       [targetState |-> held, correction |-> correction,
        correctedState |-> applyCorrectionToState(held, correction)])
  /\ emitted' = <<>>
  /\ step' = "applyTemporalWarpGate.call"
  /\ lastReturn' = NoReturn
  /\ UNCHANGED <<dimensions, psiRegisters, superpositionPaths, hasBatteryAPI,
                 sigmaVars, csTasks, evalTasks, decTasks, held>>

(* variants of the completion: one without the finally block (the depth   *)
(* is decremented on success only), one that emits before the check        *)
applyTemporalWarpGateSettleNoFinally(t) ==
  /\ BagIn(t, warpTasks)
  /\ IF t.correctedState.pas_score < PasMinimum
     THEN /\ lastReturn' = Return("applyTemporalWarpGate",
                                  [targetState |-> t.targetState,
                                   correction |-> t.correction],
                                  "rejected",
                                  "Temporal correction violates ethical constraints")
          /\ emitted' = <<>>
          /\ UNCHANGED temporalDepth
     ELSE /\ emitted' = <<Event("temporal:correction",
                                [depth |-> temporalDepth,
                                 correction |-> t.correction,
                                 pas_score |-> t.correctedState.pas_score])>>
          /\ lastReturn' = Return("applyTemporalWarpGate",
                                  [targetState |-> t.targetState,
                                   correction |-> t.correction],
                                  "resolved", t.correctedState)
          /\ temporalDepth' = temporalDepth - 1
  /\ warpTasks' = warpTasks (-) One(t)
  /\ step' = "applyTemporalWarpGate.settle"
  /\ UNCHANGED <<dimensions, psiRegisters, superpositionPaths, hasBatteryAPI,
                 sigmaVars, csTasks, evalTasks, decTasks, held>>

applyTemporalWarpGateSettleEmitsFirst(t) ==
  /\ BagIn(t, warpTasks)
  /\ emitted' = <<Event("temporal:correction",
                        [depth |-> temporalDepth,
                         correction |-> t.correction,
                         pas_score |-> t.correctedState.pas_score])>>
  /\ IF t.correctedState.pas_score < PasMinimum
     THEN lastReturn' = Return("applyTemporalWarpGate",
                               [targetState |-> t.targetState,
                                correction |-> t.correction],
                               "rejected",
                               "Temporal correction violates ethical constraints")
     ELSE lastReturn' = Return("applyTemporalWarpGate",
                               [targetState |-> t.targetState,
                                correction |-> t.correction],
                               "resolved", t.correctedState)
  /\ temporalDepth' = temporalDepth - 1
  /\ warpTasks' = warpTasks (-) One(t)
  /\ step' = "applyTemporalWarpGate.settle"
  /\ UNCHANGED <<dimensions, psiRegisters, superpositionPaths, hasBatteryAPI,
                 sigmaVars, csTasks, evalTasks, decTasks, held>>

(* a variant of the completion that commits an accepted correction to the  *)
(* register of the sandbox                                                 *)
applyTemporalWarpGateSettleCommits(t) ==
  /\ BagIn(t, warpTasks)
  /\ IF t.correctedState.pas_score < PasMinimum
     THEN /\ lastReturn' = Return("applyTemporalWarpGate",
                                  [targetState |-> t.targetState,
                                   correction |-> t.correction],
                                  "rejected",
                                  "Temporal correction violates ethical constraints")
          /\ emitted' = <<>>
          /\ UNCHANGED psiRegisters
     ELSE /\ emitted' = <<Event("temporal:correction",
                                [depth |-> temporalDepth,
                                 correction |-> t.correction,
                                 pas_score |-> t.correctedState.pas_score])>>
          /\ lastReturn' = Return("applyTemporalWarpGate",
                                  [targetState |-> t.targetState,
                                   correction |-> t.correction],
                                  "resolved", t.correctedState)
          /\ psiRegisters' = t.correctedState.psi_registers
  /\ temporalDepth' = temporalDepth - 1
  /\ warpTasks' = warpTasks (-) One(t)
  /\ step' = "applyTemporalWarpGate.settle"
  /\ UNCHANGED <<dimensions, superpositionPaths, hasBatteryAPI,
                 sigmaVars, csTasks, evalTasks, decTasks, held>>

(* ... and after the await: the ethical check, the event, the return and   *)
(* the finally block                                                       *)
applyTemporalWarpGateSettle(t) ==
  /\ BagIn(t, warpTasks)
  /\ IF t.correctedState.pas_score < PasMinimum
     THEN /\ lastReturn' = Return("applyTemporalWarpGate",
                                  [targetState |-> t.targetState,
                                   correction |-> t.correction],
                                  "rejected",
                                  "Temporal correction violates ethical constraints")
          /\ emitted' = <<>>
     ELSE /\ emitted' = <<Event("temporal:correction",
                                [depth |-> temporalDepth,
                                 correction |-> t.correction,
                                 pas_score |-> t.correctedState.pas_score])>>
          /\ lastReturn' = Return("applyTemporalWarpGate",
                                  [targetState |-> t.targetState,
                                   correction |-> t.correction],
                                  "resolved", t.correctedState)
  /\ temporalDepth' = temporalDepth - 1
  /\ warpTasks' = warpTasks (-) One(t)
  /\ step' = "applyTemporalWarpGate.settle"
  /\ UNCHANGED <<dimensions, psiRegisters, superpositionPaths, hasBatteryAPI,
                 sigmaVars, csTasks, evalTasks, decTasks, held>>

(***************************************************************************)
(* getCurrentState, reset, destroy.                                        *)
(***************************************************************************)
getCurrentState ==
  /\ LET state == QuantumState(psiRegisters, 0, <<>>, 9200, calculateEntropy,
                               superpositionPaths)
     IN  lastReturn' = Return("getCurrentState", 0, "returned", state)
  /\ emitted' = <<>>
  /\ step' = "getCurrentState"
  /\ UNCHANGED <<sandboxVars, sigmaVars, taskVars, held>>

(* reset: initializeQuantumState (which emits 'quantum:initialized' before *)
(* the candidate set and the depth are cleared), then the clearing         *)
reset ==
  /\ \E r \in [DOMAIN psiRegisters -> RandomValues] :
       LET regs == InitializedRegisters(psiRegisters, r, dimensions)
       IN  /\ psiRegisters' = regs
           /\ emitted' = << InitializedEvent(regs, dimensions, superpositionPaths,
                                             temporalDepth),
                            Event("quantum:reset", 0) >>
  /\ superpositionPaths' = <<>>
  /\ temporalDepth' = 0
  /\ lastReturn' = Return("reset", 0, "returned", 0)
  /\ step' = "reset"
  /\ UNCHANGED <<dimensions, hasBatteryAPI, sigmaVars, taskVars, held>>

destroy ==
  /\ superpositionPaths' = <<>>
  /\ psiRegisters' = <<>>
  /\ lastReturn' = Return("destroy", 0, "returned", 0)
  /\ emitted' = <<>>
  /\ step' = "destroy"
  /\ UNCHANGED <<dimensions, temporalDepth, hasBatteryAPI, sigmaVars, taskVars,
                 held>>

(***************************************************************************)
(* The host.                                                               *)
(***************************************************************************)
(* States the host builds itself to pass as targetState: one at the        *)
(* threshold and one below it                                              *)
HostStates ==
  { QuantumState(<<Scale, 0>>, 0, <<>>, pas, 0, <<>>) : pas \in {9000, 9100} }

(* the State the last step returned, if it returned one *)
ReturnedStates ==
  IF lastReturn.op \in {"applyDecoherence", "applyTemporalWarpGate", "getCurrentState"}
       /\ lastReturn.outcome \in {"resolved", "returned"}
  THEN {lastReturn.value}
  ELSE {}

(* the host keeps a State to pass as targetState later: one it built or    *)
(* the one it has just been given                                          *)
hostHolds(state) ==
  /\ held' = state
  /\ step' = "host.holds"
  /\ emitted' = <<>>
  /\ lastReturn' = NoReturn
  /\ UNCHANGED <<sandboxVars, sigmaVars, taskVars>>

(* the host overwrites with zeros (fill(0)) an array it reaches from the    *)
(* State that applyDecoherence or getCurrentState has just returned:       *)
(* target 0 is psi_registers, a copy made for that State; target k > 0 is  *)
(* superposition_paths[k].state.  The list superposition_paths is          *)
(* [bestPath] or [...this.superpositionPaths]: its elements are the        *)
(* candidate objects the sandbox retains, so the array written is the      *)
(* retained candidate's own snapshot                                       *)
hostWritesReturned(target) ==
  /\ lastReturn.op \in {"applyDecoherence", "getCurrentState"}
  /\ lastReturn.outcome \in {"resolved", "returned"}
  /\ target \in {0} \cup DOMAIN lastReturn.value.superposition_paths
  /\ IF target = 0
     THEN UNCHANGED superpositionPaths
     ELSE LET shared == lastReturn.value.superposition_paths[target]
              written == [shared EXCEPT !.state = [k \in DOMAIN shared.state |-> 0]]
          IN  superpositionPaths' =
                [j \in DOMAIN superpositionPaths |->
                   IF superpositionPaths[j] = shared
                   THEN written
                   ELSE superpositionPaths[j]]
  /\ step' = "host.writes"
  /\ emitted' = <<>>
  /\ lastReturn' = Return("host.writes", target, "returned", 0)
  /\ UNCHANGED <<dimensions, psiRegisters, temporalDepth, hasBatteryAPI,
                 sigmaVars, taskVars, held>>

(* JSON.stringify(correction) as character codes: the payloads 1 and 12 *)
Corrections == { <<49>>, <<49, 50>> }

(* the option lists the host passes to createSuperposition *)
OptionLists ==
  { <<>>, <<"optX", "optB">>, <<"optA", "optL">>, <<"optB", "optA">>,
    <<"optA", "optB", "optB", "optA">> }

(* the options the host passes to SigmaMatrix.evaluate itself *)
HostOptions == {"optA", "optX", "optP"}

(* the arguments the host passes to setPASThreshold, 1/100 *)
Thresholds == {79, 80, 101}

(* ... and with both endpoints of the valid range and a NaN *)
EndpointThresholds == {79, 80, 100, 101, NaN}


(***************************************************************************)
(* Initial states: after new SigmaMatrix(mythosCore, historySize) and      *)
(* new QuantumSandbox(sigmaMatrix, securityCortex, dims) on a host with or *)
(* without the battery interface.                                          *)
(***************************************************************************)
NoPin == [kind |-> "none", key |-> 0, value |-> 0, seen |-> 0]

Constructed(dims, batteryAPI, historySize) ==
  /\ dimensions \in dims
  /\ hasBatteryAPI \in batteryAPI
  /\ maxHistorySize \in historySize
  /\ \E r \in [1..dimensions -> RandomValues] :
       LET regs == InitializedRegisters([k \in 1..dimensions |-> 0], r, dimensions)
       IN  /\ psiRegisters = regs
           /\ emitted = <<InitializedEvent(regs, dimensions, <<>>, 0)>>
  /\ superpositionPaths = <<>>
  /\ temporalDepth = 0
  /\ decisionHistory = <<>>
  /\ pasThreshold = 91
  /\ csTasks = EmptyBag
  /\ evalTasks = EmptyBag
  /\ decTasks = EmptyBag
  /\ warpTasks = EmptyBag
  /\ held = QuantumState(<<Scale, 0>>, 0, <<>>, 9100, 0, <<>>)
  /\ step = "constructor"
  /\ lastReturn = Return("constructor", 0, "returned", 0)
  /\ attempts = 0
  /\ sinceClear = <<>>
  /\ resetSince = FALSE
  /\ pin = NoPin

(* a call may be made while at most `overlap` earlier calls are suspended *)
CanCall(overlap) == InFlight <= overlap

(***************************************************************************)
(* Observers.  They record what the program did and never influence it.    *)
(***************************************************************************)
(* pin: one resolved result of evaluate or of applyTemporalWarpGate is     *)
(* kept, with its arguments, to be compared with later results; seen is    *)
(* the length of the history (evaluate) or the sandbox register            *)
(* (applyTemporalWarpGate) when it was kept                                *)
ObservePin ==
  \/ pin' = pin
  \/ /\ pin.kind = "none"
     /\ lastReturn'.op \in {"evaluate", "applyTemporalWarpGate"}
     /\ lastReturn'.outcome = "resolved"
     /\ pin' = [kind |-> lastReturn'.op, key |-> lastReturn'.args,
                value |-> lastReturn'.value,
                seen |-> IF lastReturn'.op = "evaluate"
                         THEN Len(decisionHistory')
                         ELSE psiRegisters']

(* attempts: the correction attempts that have completed, resolved or      *)
(* rejected by the ethical check                                           *)
CountAttempts ==
  attempts' = IF step' = "applyTemporalWarpGate.settle"
              THEN Min(attempts + 1, MaxAttempts)
              ELSE attempts

(* sinceClear: the option and the result of every evaluate call that has   *)
(* completed since construction or the last clearHistory, oldest first     *)
RecordEvaluations ==
  sinceClear' =
    IF step' = "evaluate.settle"
    THEN Append(sinceClear, [option |-> lastReturn'.args.option,
                             evaluation |-> lastReturn'.value])
    ELSE IF step' = "clearHistory" THEN <<>> ELSE sinceClear

(* resetSince: reset has returned and no createSuperposition call has been *)
(* started after it                                                        *)
TrackReset ==
  resetSince' = IF step' = "reset" THEN TRUE
                ELSE IF step' = "createSuperposition.call" THEN FALSE
                ELSE resetSince

(***************************************************************************)
(* Spec: one sandbox used through its public operations; the host awaits   *)
(* every call before it makes the next one.                                *)
(***************************************************************************)
Init == Constructed(0..MaxDim, BOOLEAN, {1})

Unobserved == UNCHANGED observerVars

Next ==
  \/ \E l \in OptionLists :
       CanCall(0) /\ createSuperpositionCall(AllLow, l) /\ Unobserved
  \/ \E t \in BagToSet(csTasks) : createSuperpositionEvaluated(t) /\ Unobserved
  \/ \E t \in BagToSet(csTasks) : createSuperpositionGate(t) /\ Unobserved
  \/ \E t \in BagToSet(csTasks) : createSuperpositionPush(t) /\ Unobserved
  \/ CanCall(0) /\ applyDecoherenceEmergency /\ Unobserved
  \/ CanCall(0) /\ applyDecoherenceCall /\ Unobserved
  \/ \E t \in BagToSet(decTasks) : applyDecoherenceSettle(t) /\ Unobserved
  \/ \E h \in HostStates : CanCall(0) /\ hostHolds(h) /\ Unobserved
  \/ \E k \in Corrections :
       CanCall(0) /\ applyTemporalWarpGateCall(k) /\ Unobserved
  \/ \E t \in BagToSet(warpTasks) : applyTemporalWarpGateSettle(t) /\ Unobserved
  \/ CanCall(0) /\ getCurrentState /\ Unobserved
  \/ CanCall(0) /\ reset /\ Unobserved
  \/ CanCall(0) /\ destroy /\ Unobserved

Spec == Init /\ [][Next]_vars

(***************************************************************************)
(* SpecCorrection: the same operations with the result of one correction   *)
(* kept for comparison.                                                    *)
(***************************************************************************)
InitCorrection == Constructed({MaxDim}, {FALSE}, {1})

Observed == ObservePin /\ UNCHANGED <<attempts, sinceClear, resetSince>>

CorrectionOptionLists == { <<>>, <<"optB", "optA">> }

NextCorrection ==
  \/ \E l \in CorrectionOptionLists :
       CanCall(0) /\ createSuperpositionCall(AllLow, l) /\ Observed
  \/ \E t \in BagToSet(csTasks) : createSuperpositionEvaluated(t) /\ Observed
  \/ \E t \in BagToSet(csTasks) : createSuperpositionGate(t) /\ Observed
  \/ \E t \in BagToSet(csTasks) : createSuperpositionPush(t) /\ Observed
  \/ CanCall(0) /\ applyDecoherenceEmergency /\ Observed
  \/ CanCall(0) /\ applyDecoherenceCall /\ Observed
  \/ \E t \in BagToSet(decTasks) : applyDecoherenceSettle(t) /\ Observed
  \/ \E h \in HostStates : CanCall(0) /\ hostHolds(h) /\ Observed
  \/ \E k \in Corrections :
       CanCall(0) /\ applyTemporalWarpGateCall(k) /\ Observed
  \/ \E t \in BagToSet(warpTasks) : applyTemporalWarpGateSettle(t) /\ Observed
  \/ CanCall(0) /\ reset /\ Observed

SpecCorrection == InitCorrection /\ [][NextCorrection]_vars

(***************************************************************************)
(* SpecNested: correction calls made without awaiting the earlier ones, so *)
(* that up to MaxNested of them are attempted while the others are in      *)
(* flight.                                                                 *)
(***************************************************************************)
InitNested == Constructed({MaxDim}, {FALSE}, {1})

ObservedNested == CountAttempts /\ UNCHANGED <<pin, sinceClear, resetSince>>

NestedCorrection == <<49>>

NextNested ==
  \/ \E h \in HostStates : hostHolds(h) /\ ObservedNested
  \/ /\ CanCall(MaxNested - 1)
     /\ applyTemporalWarpGateCall(NestedCorrection)
     /\ ObservedNested
  \/ /\ CanCall(MaxNested - 1)
     /\ applyTemporalWarpGateRefused(NestedCorrection)
     /\ ObservedNested
  \/ \E t \in BagToSet(warpTasks) :
       applyTemporalWarpGateSettle(t) /\ ObservedNested

SpecNested == InitNested /\ [][NextNested]_vars

(***************************************************************************)
(* SpecFrame: corrections, nested up to the depth guard, of a sandbox that *)
(* retains candidates, with getCurrentState read in between.               *)
(***************************************************************************)
InitFrame == Constructed({MaxDim}, {FALSE}, {1})

FrameOptionList == <<"optB", "optA">>

NextFrame ==
  \/ /\ CanCall(0)
     /\ superpositionPaths = <<>>
     /\ createSuperpositionCall(AllLow, FrameOptionList)
     /\ Observed
  \/ \E t \in BagToSet(csTasks) : createSuperpositionEvaluated(t) /\ Observed
  \/ \E t \in BagToSet(csTasks) : createSuperpositionGate(t) /\ Observed
  \/ \E t \in BagToSet(csTasks) : createSuperpositionPush(t) /\ Observed
  \/ \E h \in HostStates : CanCall(0) /\ hostHolds(h) /\ Observed
  \/ /\ CanCall(MaxNested - 1)
     /\ csTasks = EmptyBag
     /\ applyTemporalWarpGateCall(NestedCorrection)
     /\ Observed
  \/ /\ CanCall(MaxNested - 1)
     /\ applyTemporalWarpGateRefused(NestedCorrection)
     /\ Observed
  \/ \E t \in BagToSet(warpTasks) : applyTemporalWarpGateSettle(t) /\ Observed
  \/ getCurrentState /\ Observed

SpecFrame == InitFrame /\ [][NextFrame]_vars

(***************************************************************************)
(* SpecThreshold: the operations of the sandbox with the threshold of the  *)
(* evaluator changed in between.                                           *)
(***************************************************************************)
InitThreshold == Constructed({MaxDim}, {FALSE}, {1})

ThresholdOptionLists == { <<"optX", "optB">>, <<"optB", "optA">> }

NextThreshold ==
  \/ \E th \in EndpointThresholds :
       CanCall(0) /\ setPASThreshold(th) /\ Unobserved
  \/ \E l \in ThresholdOptionLists :
       CanCall(0) /\ createSuperpositionCall(AllLow, l) /\ Unobserved
  \/ \E t \in BagToSet(csTasks) : createSuperpositionEvaluated(t) /\ Unobserved
  \/ \E t \in BagToSet(csTasks) : createSuperpositionGate(t) /\ Unobserved
  \/ \E t \in BagToSet(csTasks) : createSuperpositionPush(t) /\ Unobserved
  \/ CanCall(0) /\ applyDecoherenceEmergency /\ Unobserved
  \/ CanCall(0) /\ applyDecoherenceCall /\ Unobserved
  \/ \E t \in BagToSet(decTasks) : applyDecoherenceSettle(t) /\ Unobserved
  \/ \E h \in HostStates : CanCall(0) /\ hostHolds(h) /\ Unobserved
  \/ CanCall(0) /\ applyTemporalWarpGateCall(NestedCorrection) /\ Unobserved
  \/ \E t \in BagToSet(warpTasks) : applyTemporalWarpGateSettle(t) /\ Unobserved

SpecThreshold == InitThreshold /\ [][NextThreshold]_vars

(***************************************************************************)
(* SpecNestedReset: as SpecNested, with reset called while corrections are *)
(* in flight.                                                              *)
(***************************************************************************)
InitNestedReset == Constructed({MaxDim}, {FALSE}, {1})

NextNestedReset ==
  \/ /\ CanCall(MaxNested - 1)
     /\ applyTemporalWarpGateCall(NestedCorrection)
     /\ Unobserved
  \/ /\ CanCall(MaxNested - 1)
     /\ applyTemporalWarpGateRefused(NestedCorrection)
     /\ Unobserved
  \/ \E t \in BagToSet(warpTasks) : applyTemporalWarpGateSettle(t) /\ Unobserved
  \/ reset /\ Unobserved

SpecNestedReset == InitNestedReset /\ [][NextNestedReset]_vars

(***************************************************************************)
(* SpecOverlap: the host does not await createSuperposition: a second      *)
(* createSuperposition, or a reset, is made while an earlier call is       *)
(* suspended at an await.  Collapses are made between calls.               *)
(***************************************************************************)
InitOverlap == Constructed({MaxDim}, {FALSE}, {1})

ObservedOverlap == TrackReset /\ UNCHANGED <<attempts, sinceClear, pin>>

OverlapOptionLists == { <<"optA">>, <<"optB">> }

NextOverlap ==
  \/ \E l \in OverlapOptionLists :
       CanCall(1) /\ createSuperpositionCall(AllLow, l) /\ ObservedOverlap
  \/ \E t \in BagToSet(csTasks) :
       createSuperpositionEvaluated(t) /\ ObservedOverlap
  \/ \E t \in BagToSet(csTasks) : createSuperpositionGate(t) /\ ObservedOverlap
  \/ \E t \in BagToSet(csTasks) : createSuperpositionPush(t) /\ ObservedOverlap
  \/ CanCall(0) /\ applyDecoherenceEmergency /\ ObservedOverlap
  \/ CanCall(0) /\ applyDecoherenceCall /\ ObservedOverlap
  \/ \E t \in BagToSet(decTasks) : applyDecoherenceSettle(t) /\ ObservedOverlap
  \/ CanCall(1) /\ reset /\ ObservedOverlap

SpecOverlap == InitOverlap /\ [][NextOverlap]_vars

(***************************************************************************)
(* SpecAliasing: the host awaits every call and may write into the arrays  *)
(* of the State it has just been given.                                    *)
(***************************************************************************)
InitAliasing == Constructed({MaxDim}, {FALSE}, {1})

NextAliasing ==
  \/ \E l \in CorrectionOptionLists :
       CanCall(0) /\ createSuperpositionCall(AllLow, l) /\ Unobserved
  \/ \E t \in BagToSet(csTasks) : createSuperpositionEvaluated(t) /\ Unobserved
  \/ \E t \in BagToSet(csTasks) : createSuperpositionGate(t) /\ Unobserved
  \/ \E t \in BagToSet(csTasks) : createSuperpositionPush(t) /\ Unobserved
  \/ CanCall(0) /\ applyDecoherenceEmergency /\ Unobserved
  \/ CanCall(0) /\ applyDecoherenceCall /\ Unobserved
  \/ \E t \in BagToSet(decTasks) : applyDecoherenceSettle(t) /\ Unobserved
  \/ CanCall(0) /\ getCurrentState /\ Unobserved
  \/ CanCall(0) /\ reset /\ Unobserved
  \/ \E target \in 0..3 :
       CanCall(0) /\ hostWritesReturned(target) /\ Unobserved

SpecAliasing == InitAliasing /\ [][NextAliasing]_vars

(***************************************************************************)
(* SpecOrder: an evaluator whose history holds three records; the host     *)
(* clears the history before each createSuperposition, so that the history *)
(* at the end of a call is what that call appended.                        *)
(***************************************************************************)
InitOrder == Constructed({MaxDim}, {FALSE}, {3})

NextOrder ==
  \/ \E l \in OptionLists :
       /\ CanCall(0)
       /\ decisionHistory = <<>>
       /\ createSuperpositionCall(AllLow, l)
       /\ Unobserved
  \/ \E t \in BagToSet(csTasks) : createSuperpositionEvaluated(t) /\ Unobserved
  \/ \E t \in BagToSet(csTasks) : createSuperpositionGate(t) /\ Unobserved
  \/ \E t \in BagToSet(csTasks) : createSuperpositionPush(t) /\ Unobserved
  \/ CanCall(0) /\ clearHistory /\ Unobserved

SpecOrder == InitOrder /\ [][NextOrder]_vars

(***************************************************************************)
(* SpecSigma: the evaluator used directly by the host.                     *)
(***************************************************************************)
InitSigma == Constructed({MaxDim}, {FALSE}, {MaxHistorySize})

NextSigma ==
  \/ \E o \in HostOptions, c \in Contexts :
       CanCall(0) /\ evaluateCall(o, c) /\ Observed
  \/ \E t \in BagToSet(evalTasks) : evaluateSettle(t) /\ Observed
  \/ \E v \in Thresholds : CanCall(0) /\ setPASThreshold(v) /\ Observed
  \/ CanCall(0) /\ clearHistory /\ Observed

SpecSigma == InitSigma /\ [][NextSigma]_vars

(***************************************************************************)
(* SpecHistory: evaluations, clears and threshold changes, with every      *)
(* evaluation since the last clear recorded; at most MaxSinceClear         *)
(* evaluations between clears.                                             *)
(***************************************************************************)
InitHistory == Constructed({MaxDim}, {FALSE}, {MaxHistorySize})

ObservedHistory == RecordEvaluations /\ UNCHANGED <<attempts, resetSince, pin>>

NextHistory ==
  \/ \E o \in HostOptions :
       /\ CanCall(0)
       /\ Len(sinceClear) < MaxSinceClear
       /\ evaluateCall(o, AllLow)
       /\ ObservedHistory
  \/ \E t \in BagToSet(evalTasks) : evaluateSettle(t) /\ ObservedHistory
  \/ CanCall(0) /\ clearHistory /\ ObservedHistory
  \/ \E v \in EndpointThresholds :
       CanCall(0) /\ setPASThreshold(v) /\ ObservedHistory

SpecHistory == InitHistory /\ [][NextHistory]_vars

(***************************************************************************)
(* SpecRubric: the host evaluates every option under every profile.        *)
(***************************************************************************)
InitRubric == Constructed({MaxDim}, {FALSE}, {1})

NextRubric ==
  \/ \E o \in Options, c \in Profiles :
       CanCall(0) /\ evaluateCall(o, c) /\ Unobserved
  \/ \E t \in BagToSet(evalTasks) : evaluateSettle(t) /\ Unobserved

SpecRubric == InitRubric /\ [][NextRubric]_vars

(***************************************************************************)
(* Properties.  Scores are written as in the header: 0.91 is 9100 as an    *)
(* alignment score and 0.02 is 20 as a dispersion.                         *)
(***************************************************************************)
WarpAttemptSteps == {"applyTemporalWarpGate.call", "applyTemporalWarpGate.refused"}

(* C1: every State that applyDecoherence returns, on the normal path or on *)
(* the emergency path, has pas_score >= 0.91.                              *)
C1_CollapseAlignment ==
  (lastReturn.op = "applyDecoherence" /\ lastReturn.outcome = "resolved")
    => lastReturn.value.pas_score >= 9100

(* the normal path has returned the candidate scored 0.93 *)
C1_Witness ==
  /\ step = "applyDecoherence.settle"
  /\ lastReturn.outcome = "resolved"
  /\ lastReturn.value.pas_score = 9300

(* C2: applyDecoherence never raises: no call of it, in any state the      *)
(* public operations reach, ends rejected.                                 *)
C2_NeverRaises ==
  ~(lastReturn.op = "applyDecoherence" /\ lastReturn.outcome = "rejected")

(* what the code does guarantee: applyDecoherence is rejected only when    *)
(* the register is shorter than the sandbox's dimensions, as destroy()     *)
(* leaves it                                                               *)
C2_RaisesOnlyWhenDestroyed ==
  (lastReturn.op = "applyDecoherence" /\ lastReturn.outcome = "rejected")
    => Len(psiRegisters) < dimensions

(* the emergency path has thrown on a destroyed sandbox *)
C2_Witness ==
  /\ step = "applyDecoherence.emergency"
  /\ lastReturn.outcome = "rejected"
  /\ lastReturn.value = "RangeError"
  /\ Len(psiRegisters) < dimensions

(* C3: every candidate of the retained set, and every candidate a running  *)
(* createSuperposition has pushed, has pas_score >= 0.91.                  *)
C3_ThresholdGating ==
  /\ \A k \in DOMAIN superpositionPaths : superpositionPaths[k].pas_score >= 9100
  /\ \A t \in BagToSet(csTasks) :
       \A k \in DOMAIN t.paths : t.paths[k].pas_score >= 9100

(* of the options optX (0.584) and optB (0.93) only optB was retained *)
C3_Witness ==
  /\ lastReturn.op = "createSuperposition"
  /\ Len(superpositionPaths) = 1
  /\ superpositionPaths[1].option = "optB"

C5_DepthGuard ==
  [][ (temporalDepth = 8 /\ step' \in WarpAttemptSteps)
        => /\ step' = "applyTemporalWarpGate.refused"
           /\ lastReturn'.outcome = "rejected"
           /\ lastReturn'.value = "Maximum temporal recursion depth exceeded"
           /\ temporalDepth' = temporalDepth
           /\ psiRegisters' = psiRegisters
           /\ superpositionPaths' = superpositionPaths
           /\ warpTasks' = warpTasks
           /\ emitted' = <<>> ]_vars

(* a call was refused at depth 8 *)
C5_Witness ==
  /\ step = "applyTemporalWarpGate.refused"
  /\ temporalDepth = 8
  /\ lastReturn.outcome = "rejected"

C7_DepthAccounting ==
  [][ /\ step' = "applyTemporalWarpGate.call"
           => temporalDepth' = temporalDepth + 1
      /\ step' = "applyTemporalWarpGate.settle"
           => temporalDepth' = temporalDepth - 1
      /\ temporalDepth' = BagCardinality(warpTasks') ]_vars

(* a call rejected by the ethical check has completed and the counter is   *)
(* back at zero                                                            *)
C7_Witness ==
  /\ step = "applyTemporalWarpGate.settle"
  /\ lastReturn.outcome = "rejected"
  /\ temporalDepth = 0
  /\ attempts > 0

(* C8: a correction whose State has pas_score < 0.91 is rejected with the  *)
(* ethical error and emits nothing; neither the call nor its rejection     *)
(* changes the caller's target State or the sandbox's register.            *)
C8_EthicalRejection ==
  [][ /\ step' = "applyTemporalWarpGate.call"
           => held' = held /\ psiRegisters' = psiRegisters
      /\ step' = "applyTemporalWarpGate.settle"
           => /\ (lastReturn'.outcome = "rejected")
                   <=> (\E t \in BagToSet(warpTasks) :
                          t.correctedState.pas_score < 9100)
              /\ (lastReturn'.outcome = "rejected")
                   => /\ lastReturn'.value
                           = "Temporal correction violates ethical constraints"
                      /\ emitted' = <<>>
                      /\ held' = held
                      /\ lastReturn'.args.targetState = held'
                      /\ psiRegisters' = psiRegisters ]_vars

(* a correction of the target scored 0.90 was rejected *)
C8_Witness ==
  /\ step = "applyTemporalWarpGate.settle"
  /\ lastReturn.outcome = "rejected"
  /\ lastReturn.args.targetState.pas_score = 9000
  /\ held = lastReturn.args.targetState

(* C9: a correction that resolves with the target State and the payload of *)
(* an earlier one returns the same psi_registers, whatever ran between.    *)
C9_CorrectionReproducible ==
  ( /\ lastReturn.op = "applyTemporalWarpGate"
    /\ lastReturn.outcome = "resolved"
    /\ pin.kind = "applyTemporalWarpGate"
    /\ pin.key = lastReturn.args )
    => lastReturn.value.psi_registers = pin.value.psi_registers

(* the same correction resolved a second time after the sandbox's register *)
(* had changed and candidates had been retained                            *)
C9_Witness ==
  /\ lastReturn.op = "applyTemporalWarpGate"
  /\ lastReturn.outcome = "resolved"
  /\ pin.kind = "applyTemporalWarpGate"
  /\ pin.key = lastReturn.args
  /\ pin.seen # psiRegisters
  /\ Len(superpositionPaths) > 0

(* C10: an evaluation with the option and the contextual profile of an     *)
(* earlier one returns the same seven criterion scores and the same        *)
(* pas_score, whatever was evaluated and logged between.                   *)
C10_EvaluatorDeterministic ==
  ( /\ lastReturn.op = "evaluate"
    /\ pin.kind = "evaluate"
    /\ pin.key = lastReturn.args )
    => /\ lastReturn.value.matrix = pin.value.matrix
       /\ lastReturn.value.pas_score = pin.value.pas_score

(* the same evaluation returned a second time after another option had     *)
(* been evaluated and logged                                               *)
C10_Witness ==
  /\ lastReturn.op = "evaluate"
  /\ pin.kind = "evaluate"
  /\ pin.key = lastReturn.args
  /\ pin.seen = 1
  /\ Len(decisionHistory) = 2
  /\ decisionHistory[1].option # lastReturn.args.option

(* C11: each of the seven criterion scores and the composite pas_score of  *)
(* an evaluation lies in [0,1], for every option and every profile.        *)
C11_ScoresInUnitInterval ==
  (lastReturn.op = "evaluate")
    => /\ \A f \in DOMAIN lastReturn.value.matrix :
            lastReturn.value.matrix[f] \in 0..100
       /\ DOMAIN lastReturn.value.matrix =
            {"beneficence", "non_maleficence", "autonomy", "justice",
             "transparency", "privacy", "cultural_sensitivity"}
       /\ lastReturn.value.pas_score \in 0..10000

(* an option whose harm deductions exceed 0.8 was scored 0 on              *)
(* non-maleficence under a profile that takes the collectivism adjustment  *)
C11_Witness ==
  /\ lastReturn.op = "evaluate"
  /\ lastReturn.args.option = "optH"
  /\ lastReturn.value.matrix.non_maleficence = 0
  /\ lastReturn.value.matrix.beneficence = 60

(* C12: the decision history is FIFO-bounded: it holds, in insertion       *)
(* order, exactly the most recent min(n, maxHistorySize) records, n being  *)
(* the number of evaluations since the last clearHistory; so its length    *)
(* never exceeds maxHistorySize and the oldest record is the one evicted.  *)
C12_HistoryFifoBounded ==
  LET n == Len(sinceClear)
      kept == Min(n, maxHistorySize)
  IN  /\ Len(decisionHistory) <= maxHistorySize
      /\ decisionHistory = SubSeq(sinceClear, n - kept + 1, n)

(* more evaluations than the history holds have completed since the last   *)
(* clear, and the record evicted differs from the oldest one kept          *)
C12_Witness ==
  /\ step = "evaluate.settle"
  /\ Len(sinceClear) > maxHistorySize
  /\ Len(decisionHistory) = maxHistorySize
  /\ sinceClear[1] # decisionHistory[1]
  /\ decisionHistory[1] # decisionHistory[Len(decisionHistory)]

(* C13, as stated: reset is atomic for every observer: a listener of an    *)
(* event emitted during reset, which runs after the register has been      *)
(* reinitialized, finds the candidate set empty and the depth zero.        *)
C13_ResetAtomic ==
  (step = "reset")
    => \A k \in DOMAIN emitted :
         (emitted[k].name = "quantum:initialized")
           => /\ emitted[k].payload.seenPaths = 0
              /\ emitted[k].payload.seenDepth = 0

(* C13, the part that holds: when reset returns, the candidate set is      *)
(* empty and the depth counter is 0.                                       *)
C13_ResetOnReturn ==
  (step = "reset") => (superpositionPaths = <<>> /\ temporalDepth = 0)

(* reset ran on a sandbox that held candidates: the listener of            *)
(* 'quantum:initialized' saw them beside the new register                  *)
C13_Witness ==
  /\ step = "reset"
  /\ emitted[1].name = "quantum:initialized"
  /\ emitted[1].payload.seenPaths > 0
  /\ superpositionPaths = <<>>

(* C14: setPASThreshold with a value below 0.8 or above 1.0 raises, leaves *)
(* the stored threshold unchanged and emits nothing; with a value in       *)
(* [0.8, 1.0], endpoints included, it stores the value, which              *)
(* getPASThreshold then returns, and emits 'threshold:updated' once.       *)
C14_SetThreshold ==
  [][ (step' = "setPASThreshold")
        => LET v == lastReturn'.args
           IN  /\ (v # NaN /\ (v < 80 \/ v > 100))
                    => /\ lastReturn'.outcome = "threw"
                       /\ getPASThreshold' = getPASThreshold
                       /\ emitted' = <<>>
               /\ (v # NaN /\ v >= 80 /\ v <= 100)
                    => /\ lastReturn'.outcome = "returned"
                       /\ getPASThreshold' = v
                       /\ emitted' = <<Event("threshold:updated", v)>> ]_vars

(* the upper endpoint was stored, and a later call with a value above it   *)
(* was rejected and left it in place                                       *)
C14_Witness ==
  /\ step = "setPASThreshold"
  /\ lastReturn.args = 101
  /\ lastReturn.outcome = "threw"
  /\ getPASThreshold = 100

(* C15, as stated: the dispersion computed from the register lies in [0,1] *)
(* in every reachable register state (after initialization, normal and     *)
(* emergency collapse, reset and destroy).                                 *)
C15_EntropyInUnitInterval == calculateEntropy \in 0..Scale

(* C15, the part that holds: for every register length other than 1 the    *)
(* dispersion computed from the register lies in [0,1] in every reachable  *)
(* state.                                                                  *)
C15_EntropyInUnitIntervalExceptLengthOne ==
  (dimensions # 1) => (calculateEntropy \in 0..Scale)

(* a reset left a register of two or more components with its weight       *)
(* spread over several of them                                             *)
C15_Witness ==
  /\ step = "reset"
  /\ dimensions >= 2
  /\ calculateEntropy > 0
  /\ calculateEntropy <= Scale

(* the calls that report a dispersion: getCurrentState and a resolved      *)
(* applyTemporalWarpGate                                                   *)
ReportsEntropy ==
  \/ lastReturn.op = "getCurrentState" /\ lastReturn.outcome = "returned"
  \/ lastReturn.op = "applyTemporalWarpGate" /\ lastReturn.outcome = "resolved"

(* C16, as stated: on a sandbox constructed with register length <= 1 the  *)
(* dispersion reported by getCurrentState and by correction results is 0.  *)
C16_ShortRegisterReportsZero ==
  (dimensions <= 1 /\ ReportsEntropy) => (lastReturn.value.entropy = 0)

(* C16, the part that holds: on a sandbox constructed with register length *)
(* 0 the dispersion reported by getCurrentState and by correction results  *)
(* is 0.                                                                   *)
C16_EmptyRegisterReportsZero ==
  (dimensions = 0 /\ ReportsEntropy) => (lastReturn.value.entropy = 0)

(* a correction result was reported by a sandbox of register length 0 *)
C16_Witness ==
  /\ dimensions = 0
  /\ lastReturn.op = "applyTemporalWarpGate"
  /\ lastReturn.outcome = "resolved"
  /\ lastReturn.value.entropy = 0

(* a correction result reported by a sandbox of register length 1 carries  *)
(* a dispersion that is not a number                                       *)
C16_NaNReported ==
  /\ dimensions = 1
  /\ lastReturn.op = "applyTemporalWarpGate"
  /\ lastReturn.outcome = "resolved"
  /\ lastReturn.value.entropy = NaN

(* unit norm within the resolution of the model: each component is exact   *)
(* to 1/Scale, so the sum of squares is exact to 2/Scale per component     *)
UnitNorm(v) == Abs(SumSquares(v) - Scale * Scale) <= 2 * Scale * Len(v)

AllZero(v) == \A k \in DOMAIN v : v[k] = 0

(* C17: after construction, normal collapse, emergency collapse and reset  *)
(* the register, unless destroyed, has unit norm or is the all-zero vector *)
(* that normalization leaves unchanged.                                    *)
C17_UnitNorm ==
  (psiRegisters # <<>>) => (UnitNorm(psiRegisters) \/ AllZero(psiRegisters))

(* a normal collapse committed a candidate's snapshot, and the register   *)
(* has unit norm                                                           *)
C17_Witness ==
  /\ step = "applyDecoherence.settle"
  /\ lastReturn.outcome = "resolved"
  /\ Len(psiRegisters) = MaxDim
  /\ UnitNorm(psiRegisters)
  /\ ~AllZero(psiRegisters)

(* an emergency collapse whose draws were all 0 left the all-zero register *)
C17_AllZeroLeft ==
  /\ step = "applyDecoherence.emergency"
  /\ psiRegisters # <<>>
  /\ AllZero(psiRegisters)

(* C18: createSuperposition produces at most min(options.length, maxPaths) *)
(* candidates, maxPaths being 3 when the battery level is above the 0.2    *)
(* threshold and 2 otherwise; the retained candidate set never holds more  *)
(* than 3 candidates.                                                      *)
C18_CandidateBound ==
  /\ Len(superpositionPaths) <= 3
  /\ (lastReturn.op = "createSuperposition")
       => LET maxPaths == IF getBatteryLevel > batteryThreshold THEN 3 ELSE 2
          IN  /\ Len(lastReturn.value) <= Min(Len(lastReturn.args), maxPaths)
              /\ superpositionPaths = lastReturn.value

(* four options that all pass the alignment test were offered and three    *)
(* candidates were produced                                                *)
C18_Witness ==
  /\ lastReturn.op = "createSuperposition"
  /\ Len(lastReturn.args) = 4
  /\ \A k \in 1..4 : Evaluations[lastReturn.args[k], AllLow].pas_score >= PasMinimum
  /\ Len(lastReturn.value) = 3
  /\ Len(superpositionPaths) = 3

(* the sum of the probability weights of a candidate list, in sixths (the  *)
(* weights are 1/2 or 1/3)                                                 *)
ProbabilitySum(paths) ==
  SumSeq([k \in DOMAIN paths |->
            (paths[k].probability.num * 6) \div paths[k].probability.den])

(* C19, as stated: the probability weights of the candidates that          *)
(* createSuperposition produced sum to 1.                                  *)
C19_ProbabilitiesSumToOne ==
  (lastReturn.op = "createSuperposition" /\ lastReturn.value # <<>>)
    => (ProbabilitySum(lastReturn.value) = 6)

(* C19, what the code does: every candidate carries the weight 1/maxPaths, *)
(* so the weights sum to (number of candidates)/maxPaths, which is 1 only  *)
(* when maxPaths candidates were produced.                                 *)
C19_ProbabilitiesSumToShare ==
  (lastReturn.op = "createSuperposition")
    => LET maxPaths == IF getBatteryLevel > batteryThreshold THEN 3 ELSE 2
       IN  ProbabilitySum(lastReturn.value) * maxPaths
             = 6 * Len(lastReturn.value)

(* two options passed the alignment test and the weights of the two        *)
(* candidates sum to 2/3                                                   *)
C19_Witness ==
  /\ lastReturn.op = "createSuperposition"
  /\ Len(lastReturn.value) = 2
  /\ ProbabilitySum(lastReturn.value) = 4
  /\ superpositionPaths = lastReturn.value

(* C20, as stated: the length of the register is fixed at construction: no *)
(* public operation (createSuperposition, applyDecoherence,                *)
(* applyTemporalWarpGate, reset, destroy) changes it.                      *)
C20_RegisterLengthFixed ==
  [][ Len(psiRegisters') = Len(psiRegisters) ]_vars

(* C20, the part that holds: every public operation other than destroy     *)
(* leaves the length of the register as it was.                            *)
C20_RegisterLengthFixedUntilDestroy ==
  [][ (step' # "destroy") => (Len(psiRegisters') = Len(psiRegisters)) ]_vars

(* a normal collapse wrote the register of a sandbox of the largest length *)
(* and the register still has the length given at construction             *)
C20_Witness ==
  /\ step = "applyDecoherence.settle"
  /\ lastReturn.outcome = "resolved"
  /\ dimensions = MaxDim
  /\ Len(psiRegisters) = dimensions

(* the four triggers of the emergency collapse, as they stand when         *)
(* applyDecoherence is called                                              *)
EmergencyTriggers ==
  \/ calculateEntropy # NaN /\ calculateEntropy > 40
  \/ \E k \in DOMAIN superpositionPaths : superpositionPaths[k].erps_score < 2500
  \/ (IF hasBatteryAPI THEN 80 ELSE 100) < 20
  \/ superpositionPaths = <<>>

(* C21: applyDecoherence takes the emergency path whenever the dispersion  *)
(* exceeds 0.04, or some retained candidate has erps_score below 0.25, or  *)
(* the battery level is below 0.2, or the candidate set is empty, and the  *)
(* normal path only when none of these holds at the time of the call.      *)
C21_EmergencyTriggers ==
  [][ /\ (step' = "applyDecoherence.emergency") => EmergencyTriggers
      /\ (step' = "applyDecoherence.call") => ~EmergencyTriggers ]_vars

(* the emergency path was taken with a valid candidate retained beside one *)
(* whose erps_score is below 0.25                                          *)
C21_Witness ==
  /\ step = "applyDecoherence.emergency"
  /\ lastReturn.outcome = "resolved"
  /\ \E k \in DOMAIN superpositionPaths : superpositionPaths[k].erps_score < 2500
  /\ \E k \in DOMAIN superpositionPaths : IsValidPath(superpositionPaths[k])

(* 0.6*pas_score + 0.4*erps_score, times 10 *)
CombinedScore(path) == 6 * path.pas_score + 4 * path.erps_score

Eligible(path) == path.pas_score >= 9100 /\ path.erps_score >= 2500

(* C22: the candidate chosen on the normal collapse path is an eligible    *)
(* candidate (pas_score >= 0.91, erps_score >= 0.25) of greatest combined  *)
(* score 0.6*pas_score + 0.4*erps_score, and the earliest such candidate   *)
(* in the candidate order.                                                 *)
C22_BestCandidate ==
  (step = "applyDecoherence.settle")
    => \E j \in DOMAIN superpositionPaths :
         /\ lastReturn.value.superposition_paths = <<superpositionPaths[j]>>
         /\ Eligible(superpositionPaths[j])
         /\ \A k \in DOMAIN superpositionPaths :
              Eligible(superpositionPaths[k])
                => /\ CombinedScore(superpositionPaths[k])
                        <= CombinedScore(superpositionPaths[j])
                   /\ (k < j) => CombinedScore(superpositionPaths[k])
                                   < CombinedScore(superpositionPaths[j])

(* the second of three candidates won: it beat the first and tied with the *)
(* third                                                                   *)
C22_Witness ==
  /\ step = "applyDecoherence.settle"
  /\ Len(superpositionPaths) = 3
  /\ lastReturn.value.superposition_paths = <<superpositionPaths[2]>>
  /\ CombinedScore(superpositionPaths[1]) < CombinedScore(superpositionPaths[2])
  /\ CombinedScore(superpositionPaths[3]) = CombinedScore(superpositionPaths[2])
  /\ superpositionPaths[3] # superpositionPaths[2]

(* C23: on the normal collapse path the register after the call equals the *)
(* winning candidate's snapshot in every component, and the returned State *)
(* carries that register, the winner's pas_score and a superposition_paths *)
(* list holding exactly the winner.                                        *)
C23_WholesaleCommit ==
  (step = "applyDecoherence.settle")
    => /\ Len(lastReturn.value.superposition_paths) = 1
       /\ LET winner == lastReturn.value.superposition_paths[1]
          IN  /\ psiRegisters = winner.state
              /\ lastReturn.value.psi_registers = winner.state
              /\ lastReturn.value.pas_score = winner.pas_score

(* a normal collapse left a register whose dispersion is above 0.04: the   *)
(* register it was called on, which had passed the dispersion test, was    *)
(* replaced by the snapshot                                                *)
C23_Witness ==
  /\ step = "applyDecoherence.settle"
  /\ calculateEntropy > 40
  /\ psiRegisters = lastReturn.value.superposition_paths[1].state
  /\ lastReturn.value.psi_registers = psiRegisters

(* C24, as stated: the correction-depth counter stays within 0..8 in every *)
(* reachable state, also when corrections are started without awaiting     *)
(* earlier ones and when reset runs while corrections are in flight.       *)
C24_DepthInRange == temporalDepth \in 0..8

(* C24, the part that holds: the counter never exceeds 8, with or without  *)
(* resets while corrections are in flight.                                 *)
C24_DepthBounded == temporalDepth <= 8

(* a correction that was in flight when reset zeroed the counter has       *)
(* completed, and its finally block has taken the counter below 0          *)
C24_Witness ==
  /\ step = "applyTemporalWarpGate.settle"
  /\ temporalDepth < 0

(* C25, as stated: after reset has returned the candidate set stays empty  *)
(* until a createSuperposition call started after the reset completes,     *)
(* even if a call started before the reset is still suspended.             *)
C25_EmptyAfterReset == resetSince => (superpositionPaths = <<>>)

(* C25, the part that holds: the candidate set only becomes non-empty when *)
(* a createSuperposition call completes.                                   *)
C25_FilledByCompletionOnly ==
  [][ (superpositionPaths = <<>> /\ superpositionPaths' # <<>>)
        => (lastReturn'.op = "createSuperposition"
              /\ superpositionPaths' = lastReturn'.value) ]_vars

(* a createSuperposition call that was suspended when reset ran has        *)
(* completed and installed its candidates; no call was started after the   *)
(* reset                                                                   *)
C25_Witness ==
  /\ resetSince
  /\ lastReturn.op = "createSuperposition"
  /\ superpositionPaths # <<>>

(* C26, as stated: once applyDecoherence has completed, on the normal or   *)
(* the emergency path, the sandbox retains no candidates.                  *)
C26_CandidatesConsumed ==
  (lastReturn.op = "applyDecoherence" /\ lastReturn.outcome = "resolved")
    => (superpositionPaths = <<>>)

(* C26, what the code does: no step of applyDecoherence changes the        *)
(* retained candidate set.                                                 *)
C26_CandidatesKept ==
  [][ (step' \in {"applyDecoherence.call", "applyDecoherence.settle",
                  "applyDecoherence.emergency"})
        => (superpositionPaths' = superpositionPaths) ]_vars

(* a normal collapse has completed and the sandbox still retains the       *)
(* candidates, the winner among them                                       *)
C26_Witness ==
  /\ step = "applyDecoherence.settle"
  /\ lastReturn.outcome = "resolved"
  /\ Len(superpositionPaths) >= 2
  /\ \E k \in DOMAIN superpositionPaths :
       lastReturn.value.superposition_paths = <<superpositionPaths[k]>>

(* C27, as stated: writing into any array reachable from a State returned  *)
(* by applyDecoherence or getCurrentState changes neither the sandbox      *)
(* register nor the snapshot of any candidate the sandbox retains.         *)
C27_NoAliasing ==
  [][ (step' = "host.writes")
        => /\ psiRegisters' = psiRegisters
           /\ superpositionPaths' = superpositionPaths ]_vars

(* C27, the part that holds: the register is copied into every State and   *)
(* every snapshot: writing into a returned State never changes the         *)
(* register, and writing into its psi_registers changes no snapshot.       *)
C27_RegisterNotAliased ==
  [][ (step' = "host.writes")
        => /\ psiRegisters' = psiRegisters
           /\ (lastReturn'.args = 0) => (superpositionPaths' = superpositionPaths)
      ]_vars

(* the host has zeroed the snapshot it reached through the returned State, *)
(* and the candidate the sandbox retains now carries that zeroed snapshot  *)
(* beside a register that is not zero                                      *)
C27_Witness ==
  /\ step = "host.writes"
  /\ lastReturn.args > 0
  /\ ~AllZero(psiRegisters)
  /\ \E j \in DOMAIN superpositionPaths :
       /\ superpositionPaths[j].state # <<>>
       /\ AllZero(superpositionPaths[j].state)

(* the State the last step returned carries the dispersion of its own      *)
(* psi_registers                                                           *)
EntropyMatchesRegisters ==
  lastReturn.value.entropy
    = calculateEntropyFromState(lastReturn.value.psi_registers, dimensions)

(* C28, as stated: in every State the sandbox produces (normal collapse,   *)
(* emergency collapse, correction, getCurrentState) the entropy field      *)
(* equals the dispersion computed from that State's psi_registers.         *)
C28_EntropyInSync ==
  (lastReturn.op \in {"applyDecoherence", "applyTemporalWarpGate", "getCurrentState"}
     /\ lastReturn.outcome \in {"resolved", "returned"})
    => EntropyMatchesRegisters

(* C28, the part that holds: the States of getCurrentState, of corrections *)
(* and of normal collapses the host awaits carry the dispersion of their   *)
(* own psi_registers.                                                      *)
C28_EntropyInSyncUnlessEmergency ==
  (lastReturn.op \in {"applyDecoherence", "applyTemporalWarpGate", "getCurrentState"}
     /\ lastReturn.outcome \in {"resolved", "returned"}
     /\ step # "applyDecoherence.emergency")
    => EntropyMatchesRegisters

(* a normal collapse returned a State whose register has its weight spread *)
(* over several components, with the dispersion of that register           *)
C28_Witness ==
  /\ step = "applyDecoherence.settle"
  /\ lastReturn.outcome = "resolved"
  /\ lastReturn.value.entropy > 40
  /\ EntropyMatchesRegisters

(* a reset ran while a normal collapse was suspended: the State it then    *)
(* returned carries the dispersion of the new register beside a copy of    *)
(* the old one                                                             *)
C28_InterleavedDesync ==
  /\ step = "applyDecoherence.settle"
  /\ lastReturn.outcome = "resolved"
  /\ ~EntropyMatchesRegisters

(* C29: one createSuperposition call evaluates the first                   *)
(* min(options.length, maxPaths) options in input order and no others: it  *)
(* appends exactly that many records to the evaluator's history, in input  *)
(* order, and the kept candidates are in the relative order of their       *)
(* options.                                                                *)
C29_EvaluatedInOrder ==
  (lastReturn.op = "createSuperposition")
    => LET options == lastReturn.args
           kept == lastReturn.value
           n == Min(Len(options), 3)
       IN  /\ Len(decisionHistory) = n
           /\ \A k \in 1..n : decisionHistory[k].option = options[k]
           /\ \A k \in DOMAIN kept :
                /\ kept[k].id < n
                /\ kept[k].option = options[kept[k].id + 1]
                /\ (k > 1) => kept[k - 1].id < kept[k].id

(* a call with four options appended three records and kept the three      *)
(* candidates in the order of their options                                *)
C29_Witness ==
  /\ lastReturn.op = "createSuperposition"
  /\ Len(lastReturn.args) = 4
  /\ Len(decisionHistory) = 3
  /\ decisionHistory[1].option # decisionHistory[2].option
  /\ Len(lastReturn.value) = 3

(* C30: when a createSuperposition call completes, the retained candidate  *)
(* set is exactly the list of candidates that call kept (candidates of its *)
(* own options only), also when two calls overlap, and one                 *)
(* 'superposition:created' event is emitted, carrying their number.        *)
C30_CandidateSetReplaced ==
  (lastReturn.op = "createSuperposition")
    => /\ superpositionPaths = lastReturn.value
       /\ \A k \in DOMAIN superpositionPaths :
            /\ superpositionPaths[k].id < Len(lastReturn.args)
            /\ superpositionPaths[k].option
                 = lastReturn.args[superpositionPaths[k].id + 1]
       /\ emitted = <<Event("superposition:created",
                            [paths |-> Len(lastReturn.value)])>>

(* a call completed and installed its candidate while another call, made   *)
(* with a different option list, was still suspended                       *)
C30_Witness ==
  /\ lastReturn.op = "createSuperposition"
  /\ superpositionPaths = lastReturn.value
  /\ Len(superpositionPaths) = 1
  /\ \E t \in BagToSet(csTasks) : t.options # lastReturn.args

(* the last step emitted one collapse event whose payload is the State it  *)
(* returned, a State that carries the register as the sandbox now holds it *)
OneCollapseEvent ==
  /\ Len(emitted) = 1
  /\ emitted[1].name \in {"decoherence:applied", "collapse:emergency"}
  /\ emitted[1].payload = lastReturn.value
  /\ emitted[1].payload.psi_registers = psiRegisters

(* C31, as stated: every applyDecoherence call emits exactly one of        *)
(* 'decoherence:applied' and 'collapse:emergency', with the State it       *)
(* returns as payload, after the register has been updated.                *)
C31_OneCollapseEvent ==
  (lastReturn.op = "applyDecoherence") => OneCollapseEvent

(* C31, the part that holds: every applyDecoherence call that the host     *)
(* awaits and that resolves emits exactly one of the two events, with the  *)
(* State it returns as payload, after the register has been updated.       *)
C31_OneCollapseEventWhenResolved ==
  (lastReturn.op = "applyDecoherence" /\ lastReturn.outcome = "resolved")
    => /\ OneCollapseEvent
       /\ (step = "applyDecoherence.emergency")
            <=> (emitted[1].name = "collapse:emergency")

(* a normal collapse emitted 'decoherence:applied' with the State it       *)
(* returned, whose register is the sandbox's new register                  *)
C31_Witness ==
  /\ step = "applyDecoherence.settle"
  /\ lastReturn.outcome = "resolved"
  /\ emitted = <<Event("decoherence:applied", lastReturn.value)>>
  /\ lastReturn.value.psi_registers = psiRegisters
  /\ calculateEntropy > 40

(* C32: every candidate kept by createSuperposition carries the weight     *)
(* 1/maxPaths, however many options passed the alignment test: the weights *)
(* are not renormalized over the number of candidates kept.                *)
C32_ProbabilityIsShareOfMaxPaths ==
  LET maxPaths == IF getBatteryLevel > batteryThreshold THEN 3 ELSE 2
      share(paths) == \A k \in DOMAIN paths :
                        /\ paths[k].probability.num = 1
                        /\ paths[k].probability.den = maxPaths
  IN  /\ share(superpositionPaths)
      /\ (lastReturn.op = "createSuperposition") => share(lastReturn.value)

(* of two options one passed the alignment test, and the one candidate     *)
(* kept carries the weight 1/3                                             *)
C32_Witness ==
  /\ step \in {"createSuperposition.gate", "createSuperposition.push"}
  /\ lastReturn.op = "createSuperposition"
  /\ Len(lastReturn.args) = 2
  /\ Len(lastReturn.value) = 1
  /\ lastReturn.value[1].probability = [num |-> 1, den |-> 3]
  /\ superpositionPaths = lastReturn.value

(* the weights the rubric uses for the evaluation that just returned *)
ReturnedWeights ==
  adjustWeightsForCulture(baseWeights, lastReturn.value.cultural_context)

WeightSum(w) ==
  w.beneficence + w.non_maleficence + w.autonomy + w.justice
    + w.transparency + w.privacy + w.cultural_sensitivity

(* C33, as stated: under every profile each of the seven adjusted          *)
(* criterion weights is at least 0.07 and the adjusted weights sum to      *)
(* 1.00.                                                                   *)
C33_WeightsAtLeastSevenHundredths ==
  (lastReturn.op = "evaluate")
    => /\ \A f \in DOMAIN ReturnedWeights : ReturnedWeights[f] >= 7
       /\ WeightSum(ReturnedWeights) = 100

(* C33, what the code does: under every profile each of the seven adjusted *)
(* criterion weights is at least 0.05 (the weight of cultural sensitivity  *)
(* when collectivism is not above 0.7; it is 0.08 otherwise, and then      *)
(* autonomy or transparency is the least, at 0.07 or more), and the        *)
(* adjusted weights sum to 1.00.                                           *)
C33_WeightsAtLeastFiveHundredths ==
  (lastReturn.op = "evaluate")
    => /\ DOMAIN ReturnedWeights = DOMAIN baseWeights
       /\ \A f \in DOMAIN ReturnedWeights : ReturnedWeights[f] >= 5
       /\ lastReturn.value.cultural_context.collectivism > 70
            => \A f \in DOMAIN ReturnedWeights : ReturnedWeights[f] >= 7
       /\ WeightSum(ReturnedWeights) = 100

(* an evaluation returned under the profile that takes all three           *)
(* adjustments, where autonomy weighs 0.07 and beneficence 0.16            *)
C33_Witness ==
  /\ lastReturn.op = "evaluate"
  /\ lastReturn.value.cultural_context = AllHigh
  /\ ReturnedWeights.autonomy = 7
  /\ ReturnedWeights.beneficence = 16
  /\ ReturnedWeights.cultural_sensitivity = 8

(* C34: whenever applyDecoherence gets past its emergency test (no trigger *)
(* holds and candidates are retained, the candidates having been touched   *)
(* by createSuperposition, applyDecoherence, applyTemporalWarpGate and     *)
(* reset only), its filter keeps every retained candidate, so the filtered *)
(* set is not empty and the second emergency fallback is not taken.        *)
C34_FilterKeepsAll ==
  (~shouldCollapse /\ Len(superpositionPaths) # 0)
    => /\ validPaths = superpositionPaths
       /\ Len(validPaths) # 0
       /\ (TakesEmergencyPath <=> FALSE)

(* applyDecoherence took the normal path with two candidates retained, all *)
(* of which its filter kept                                                *)
C34_Witness ==
  /\ step = "applyDecoherence.call"
  /\ BagCardinality(decTasks) = 1
  /\ Len(superpositionPaths) = 2
  /\ validPaths = superpositionPaths

C36_CorrectionLeavesSandbox ==
  [][ /\ step' \in {"applyTemporalWarpGate.call", "applyTemporalWarpGate.settle",
                    "applyTemporalWarpGate.refused"}
           => /\ psiRegisters' = psiRegisters
              /\ superpositionPaths' = superpositionPaths
      /\ (step' = "getCurrentState" /\ pin'.kind = "applyTemporalWarpGate")
           => /\ lastReturn'.value.psi_registers = pin'.seen
              /\ lastReturn'.value.superposition_paths = superpositionPaths ]_vars

(* getCurrentState after an accepted correction: it reports the register   *)
(* the sandbox had when the correction was accepted, not the corrected     *)
(* one, and the two candidates retained                                    *)
C36_Witness ==
  /\ step = "getCurrentState"
  /\ pin.kind = "applyTemporalWarpGate"
  /\ lastReturn.value.psi_registers = pin.seen
  /\ pin.value.psi_registers # pin.seen
  /\ Len(lastReturn.value.superposition_paths) = 2

(* the options among the first maxPaths of the list whose alignment is at  *)
(* least the fixed 0.91                                                    *)
KeptAtFixedGate(options) ==
  LET maxPaths == IF getBatteryLevel > batteryThreshold THEN 3 ELSE 2
      passes(o) == Evaluations[o, AllLow].pas_score >= 9100
  IN  SelectSeq(SubSeq(options, 1, Min(Len(options), maxPaths)), passes)

(* C37: a change of the threshold by setPASThreshold changes nothing in    *)
(* the sandbox: setPASThreshold leaves the sandbox as it is, and whatever  *)
(* the threshold has become, createSuperposition retains the options       *)
(* scored 0.91 or more, applyDecoherence selects the best of all retained  *)
(* candidates, and applyTemporalWarpGate accepts the targets scored 0.91   *)
(* or more.                                                                *)
C37_ThresholdNotRead ==
  [][ /\ step' = "setPASThreshold"
           => /\ sandboxVars' = sandboxVars
              /\ taskVars' = taskVars
      /\ lastReturn'.op = "createSuperposition"
           => /\ [k \in DOMAIN lastReturn'.value |-> lastReturn'.value[k].option]
                   = KeptAtFixedGate(lastReturn'.args)
              /\ superpositionPaths' = lastReturn'.value
      /\ (step' = "applyDecoherence.call" /\ lastReturn'.op = "none")
           => \E t \in BagToSet(decTasks') :
                t.bestPath = BestOf(Head(superpositionPaths),
                                    Tail(superpositionPaths))
      /\ step' = "applyTemporalWarpGate.settle"
           => ((lastReturn'.outcome = "resolved")
                 <=> (lastReturn'.args.targetState.pas_score >= 9100)) ]_vars

(* with the threshold raised to 1.0, createSuperposition retained an       *)
(* option scored 0.93                                                      *)
C37_Witness ==
  /\ pasThreshold = 100
  /\ lastReturn.op = "createSuperposition"
  /\ lastReturn.args = <<"optX", "optB">>
  /\ Len(superpositionPaths) = 1
  /\ superpositionPaths[1].option = "optB"
  /\ superpositionPaths[1].pas_score = 9300

(* the weighted sum of the criterion scores before it is clamped, 1/10000 *)
WeightedSum(matrix, w) ==
  matrix.beneficence * w.beneficence
    + matrix.non_maleficence * w.non_maleficence
    + matrix.autonomy * w.autonomy
    + matrix.justice * w.justice
    + matrix.transparency * w.transparency
    + matrix.privacy * w.privacy
    + matrix.cultural_sensitivity * w.cultural_sensitivity

(* C38: the non-maleficence score of an evaluation is at most its baseline *)
(* 0.8 and its weight is 0.25 under every profile, so the pas_score that   *)
(* evaluate returns is at most 0.95 for every option and profile, and it   *)
(* is the weighted sum itself: the clamp at 1.0 does not bind.             *)
C38_ScoreAtMostNinetyFive ==
  (lastReturn.op = "evaluate")
    => /\ lastReturn.value.matrix.non_maleficence <= 80
       /\ ReturnedWeights.non_maleficence = 25
       /\ lastReturn.value.pas_score <= 9500
       /\ WeightedSum(lastReturn.value.matrix, ReturnedWeights) < 10000
       /\ lastReturn.value.pas_score
            = WeightedSum(lastReturn.value.matrix, ReturnedWeights)

(* an option that scores the baseline 0.8 on non-maleficence and 1.0 on    *)
(* the other six criteria was evaluated at 0.95 under a profile that takes *)
(* an adjustment                                                           *)
C38_Witness ==
  /\ lastReturn.op = "evaluate"
  /\ lastReturn.value.matrix.non_maleficence = 80
  /\ lastReturn.value.pas_score = 9500
  /\ ReturnedWeights # baseWeights

====
